---- MODULE Spec2Model ----
(***************************************************************************)
(* A model of the tourism-data retrieval layer of my-tour: the retrying    *)
(* API client (fetchTourAPI), the error classifier (error-handler.ts) and  *)
(* the bookmark gateway (supabase-api.ts, actions/bookmarks.ts) over the   *)
(* bookmarks table.                                                        *)
(*                                                                         *)
(* Text.  The program decides by substring tests on error messages.  A     *)
(* message is modelled as the sequence of its pieces, cut at every place   *)
(* where one of the program's search strings begins or ends, so that       *)
(* String.includes is "occurs as a contiguous run of pieces".  Hangul is   *)
(* written in Latin letters (the lexer reads ASCII only); the original     *)
(* text stands in the comment above each message.                          *)
(***************************************************************************)
EXTENDS Integers, Sequences, FiniteSets, TLC

\* --------------------------------------------------------------- bounds
MaxRetries == 5
MaxInserts == 2
MaxPages == 15
MaxIssued == 3
DefaultRetries == 3
BaseDelay == 1000
MaxDelay == 5000

\* ----------------------------------------------------------------- text
\* String.prototype.includes on piece sequences.
Includes(msg, needle) ==
    \E i \in 0..(Len(msg) - Len(needle)) :
        \A j \in 1..Len(needle) : msg[i + j] = needle[j]

LowerTable ==
    (" SERVICE ACCESS" :> " service access") @@
    (" TIMEOUT" :> " timeout") @@
    ("API " :> "api ") @@
    ("API ereo" :> "api ereo") @@
    ("API ki" :> "api ki") @@
    ("APPLICATION ERROR" :> "application error") @@
    ("APPLICATION_ERROR" :> "application_error") @@
    ("Failed to " :> "failed to ") @@
    ("Failed to add bookmark: " :> "failed to add bookmark: ") @@
    ("NETWORK" :> "network") @@
    ("SERVICETIME_OUT" :> "servicetime_out") @@
    ("SERVICE_ACCESS_DENIED_ERROR" :> "service_access_denied_error") @@
    ("UNAUTHORIZED" :> "unauthorized") @@
    ("Unexpected token < in JSON at position 0" :>
        "unexpected token < in json at position 0") @@
    ("gwangwangji IDga pilyohapnida." :> "gwangwangji idga pilyohapnida.") @@
    ("Error" :> "error") @@
    ("TypeError" :> "typeerror") @@
    ("SyntaxError" :> "syntaxerror")

\* String.prototype.toLowerCase, piece by piece (Hangul has no case).
LowerPiece(t) == IF t \in DOMAIN LowerTable THEN LowerTable[t] ELSE t
toLowerCase(msg) == [i \in 1..Len(msg) |-> LowerPiece(msg[i])]

\* new Error(message)
NewError(msg) == [name |-> "Error", message |-> msg]
NoError == [name |-> "none", message |-> <<>>]

\* ------------------------------------------------- messages of the client
\* "API 인증 실패: API 키를 확인해주세요."
Msg401 == <<"API ", "injeung", " silpae: ", "API ki", "reul hwakinhaejuseyo.">>
\* "API 호출 제한 초과: 잠시 후 다시 시도해주세요."
Msg429 == <<"API ", "hochul", " jehan", " chogwa: jamsi hu dasi sidohaejuseyo.">>
\* "서버 에러: 잠시 후 다시 시도해주세요."
Msg5xx == <<"seobeo ereo", ": jamsi hu dasi sidohaejuseyo.">>
\* "데이터를 불러오는 중 오류가 발생했습니다."
MsgHttp == <<"deiteoreul bulreooneun jung oryuga balsaenghaessseupnida.">>
\* "API 인증에 실패했습니다. 관리자에게 문의해주세요."
MsgKey == <<"API ", "injeung", "e silpaehaessseupnida. gwanrijaege munuihaejuseyo.">>
\* "입력한 정보를 확인해주세요. 필수 항목이 누락되었습니다."
MsgMandatory ==
    <<"ipryeokhan jeongboreul hwakinhaejuseyo. ", "pilsu", " hangmoki ", "nurak",
      "doeeossseupnida.">>
\* `API 에러 (${resultCode}): ${resultMsg}`
MsgApi(resultCode, resultMsg) ==
    <<"API ereo", " (">> \o <<resultCode>> \o <<"): ">> \o resultMsg
\* "데이터를 불러오는 중 오류가 발생했습니다."  (thrown when no attempt was made)
MsgFallback == <<"deiteoreul bulreooneun jung oryuga balsaenghaessseupnida.">>
\* the TypeError of a fetch() that could not reach the server: "Failed to fetch"
MsgNetFail == <<"Failed to ", "fetch">>
\* the SyntaxError of response.json(): "Unexpected token < in JSON at position 0"
MsgJson == <<"Unexpected token < in JSON at position 0">>

\* -------------------------------------------- messages of error-handler.ts
\* "네트워크 연결에 문제가 있습니다. 인터넷 연결을 확인하고 다시 시도해주세요."
UserNetwork ==
    <<"neteuwokeu yeongyeole munjega issseupnida. inteones yeongyeoleul hwakinhago dasi sidohaejuseyo.">>
\* "API 인증에 실패했습니다. 관리자에게 문의해주세요."
UserAuthKey == <<"API ", "injeung", "e silpaehaessseupnida. gwanrijaege munuihaejuseyo.">>
\* "인증에 실패했습니다. 다시 로그인해주세요."
UserAuth == <<"injeung", "e silpaehaessseupnida. dasi rogeuinhaejuseyo.">>
\* "API 호출 제한에 도달했습니다. 잠시 후 다시 시도해주세요."
UserApiLimit ==
    <<"API ", "hochul", " jehan", "e dodalhaessseupnida. jamsi hu dasi sidohaejuseyo.">>
\* "서버에 일시적인 문제가 발생했습니다. 잠시 후 다시 시도해주세요."
UserServer ==
    <<"seobeoe ilsijeokin munjega balsaenghaessseupnida. jamsi hu dasi sidohaejuseyo.">>
\* "데이터를 불러오는 중 오류가 발생했습니다. 잠시 후 다시 시도해주세요."
UserApi ==
    <<"deiteoreul bulreooneun jung oryuga balsaenghaessseupnida. jamsi hu dasi sidohaejuseyo.">>
\* "입력한 정보를 확인해주세요. 필수 항목이 누락되었거나 형식이 올바르지 않습니다."
UserValidation ==
    <<"ipryeokhan jeongboreul hwakinhaejuseyo. ", "pilsu", " hangmoki ", "nurak",
      "doeeossgeona hyeongsiki olbareuji anhseupnida.">>
\* "요청하신 정보를 찾을 수 없습니다."
UserNotFound == <<"yocheonghasin jeongboreul ", "chajeul su eops", "seupnida.">>
\* "예상치 못한 오류가 발생했습니다. 잠시 후 다시 시도해주세요."
UserUnknown ==
    <<"yesangchi moshan oryuga balsaenghaessseupnida. jamsi hu dasi sidohaejuseyo.">>

\* ------------------------------------------------------- error-handler.ts
\* getErrorType: the first matching class, tested in the order of the source.
getErrorType(error) ==
    LET message == toLowerCase(error.message)
        name == LowerPiece(error.name)
    IN  IF \/ name = "networkerror"
           \/ name = "typeerror"
           \/ Includes(message, <<"network">>)
           \/ Includes(message, <<"fetch">>)
           \/ Includes(message, <<"failed to ", "fetch">>)
           \/ Includes(message, <<"network", " request failed">>)
        THEN "NETWORK"
        ELSE IF \/ Includes(message, <<"injeung">>)          \* "인증"
                \/ Includes(message, <<"api ki">>)           \* "api 키"
                \/ Includes(message, <<"authentication">>)
                \/ Includes(message, <<"unauthorized">>)
                \/ Includes(message, <<"forbidden">>)
        THEN "AUTH"
        ELSE IF \/ Includes(message, <<"api ereo">>)         \* "api 에러"
                \/ Includes(message, <<"api ", "hochul">>)   \* "api 호출"
                \/ Includes(message, <<"resultcode">>)
                \/ Includes(message, <<"service_key">>)
        THEN "API"
        ELSE IF \/ Includes(message, <<"pilsu", " paramiteo">>)  \* "필수 파라미터"
                \/ Includes(message, <<"validation">>)
                \/ Includes(message, <<"invalid">>)
        THEN "VALIDATION"
        ELSE IF \/ Includes(message, <<"not found">>)
                \/ Includes(message, <<"chajeul su eops">>)  \* "찾을 수 없"
                \/ Includes(message, <<"jonjaehaji anh">>)   \* "존재하지 않"
        THEN "NOT_FOUND"
        ELSE IF \/ Includes(message, <<"seobeo ereo">>)      \* "서버 에러"
                \/ Includes(message, <<"server error">>)
                \/ Includes(message, <<"500">>)
                \/ Includes(message, <<"502">>)
                \/ Includes(message, <<"503">>)
        THEN "SERVER"
        ELSE "UNKNOWN"

\* getUserFriendlyMessage(error, type)
getUserFriendlyMessage(error, type) ==
    CASE type = "NETWORK" -> UserNetwork
      [] type = "AUTH" ->
            IF Includes(error.message, <<"API ki">>) THEN UserAuthKey ELSE UserAuth
      [] type = "API" ->
            IF Includes(error.message, <<"hochul", " jehan">>) THEN UserApiLimit
            ELSE IF Includes(error.message, <<"seobeo ereo">>) THEN UserServer
            ELSE UserApi
      [] type = "VALIDATION" -> UserValidation
      [] type = "NOT_FOUND" -> UserNotFound
      [] type = "SERVER" -> UserServer
      [] OTHER -> UserUnknown

\* getErrorInfo(error)
\* A getErrorInfo that offers a retry after an authentication error too.
getErrorInfoAuthRetry(error) ==
    LET type == getErrorType(error)
    IN  [type |-> type,
         message |-> error.message,
         userMessage |-> getUserFriendlyMessage(error, type),
         canRetry |-> type \in {"NETWORK", "API", "SERVER", "AUTH"}]

getErrorInfo(error) ==
    LET type == getErrorType(error)
    IN  [type |-> type,
         message |-> error.message,
         userMessage |-> getUserFriendlyMessage(error, type),
         canRetry |-> type \in {"NETWORK", "API", "SERVER"}]

\* formatError(error)
formatError(error) == getUserFriendlyMessage(error, getErrorType(error))

\* isRetryableError(error)
isRetryableError(error) == getErrorInfo(error).canRetry

\* ------------------------------------------------------------ tour-api.ts
\* What one fetch attempt meets: fetch() rejects, or resolves to a Response
\* with a status; response.json() rejects or yields an object, which may
\* carry response.header with resultCode and resultMsg.
Response(net, status, json, header, resultCode, resultMsg) ==
    [net |-> net, status |-> status, json |-> json, header |-> header,
     resultCode |-> resultCode, resultMsg |-> resultMsg]
NoResponse == Response("none", 0, "none", FALSE, "", <<>>)
NetworkFailure == Response("reject", 0, "none", FALSE, "", <<>>)
HttpStatus(s) == Response("resolve", s, "none", FALSE, "", <<>>)
BadJson == Response("resolve", 200, "reject", FALSE, "", <<>>)
NoHeader == Response("resolve", 200, "object", FALSE, "", <<>>)
Envelope(code, msg) == Response("resolve", 200, "object", TRUE, code, msg)

ErrorStatuses == {400, 401, 403, 404, 429, 500, 503}
TerminalCodes ==
    {"SERVICE_KEY_NOT_REGISTERED", "SERVICE_KEY_IS_NOT_VALID",
     "NO_MANDATORY_REQUEST_PARAMETERS_ERROR"}
\* result codes other than success and the three the client names, each with
\* a result message: plain, naming the network, naming authorization
OtherEnvelopes ==
    {Envelope("APPLICATION_ERROR", <<"APPLICATION ERROR">>),
     Envelope("SERVICETIME_OUT", <<"NETWORK", " TIMEOUT">>),
     Envelope("SERVICE_ACCESS_DENIED_ERROR", <<"UNAUTHORIZED", " SERVICE ACCESS">>)}
Responses ==
    {NetworkFailure, BadJson, NoHeader, Envelope("0000", <<"OK">>)}
    \cup {HttpStatus(s) : s \in ErrorStatuses}
    \cup {Envelope(c, <<"SERVICE ERROR">>) : c \in TerminalCodes}
    \cup OtherEnvelopes

\* response.ok
ResponseOk(o) == o.status \in 200..299

Throw(e) == [tag |-> "throw", error |-> e]
Return == [tag |-> "return", error |-> NoError]

\* The error built for a non-ok status.
StatusError(status) ==
    IF status = 401 \/ status = 403 THEN NewError(Msg401)
    ELSE IF status = 429 THEN NewError(Msg429)
    ELSE IF status >= 500 THEN NewError(Msg5xx)
    ELSE NewError(MsgHttp)

\* The error built for a result code other than "0000".
ResultCodeError(resultCode, resultMsg) ==
    IF resultCode = "SERVICE_KEY_NOT_REGISTERED" THEN NewError(MsgKey)
    ELSE IF resultCode = "SERVICE_KEY_IS_NOT_VALID" THEN NewError(MsgKey)
    ELSE IF resultCode = "NO_MANDATORY_REQUEST_PARAMETERS_ERROR"
    THEN NewError(MsgMandatory)
    ELSE NewError(formatError(NewError(MsgApi(resultCode, resultMsg))))

\* The try block of one loop iteration: what it throws, or that it returns.
TryAttempt(o) ==
    IF o.net = "reject" THEN Throw([name |-> "TypeError", message |-> MsgNetFail])
    ELSE IF ~ResponseOk(o) THEN Throw(StatusError(o.status))
    ELSE IF o.json = "reject"
    THEN Throw([name |-> "SyntaxError", message |-> MsgJson])
    ELSE IF o.header /\ o.resultCode # "0000"
    THEN Throw(ResultCodeError(o.resultCode, o.resultMsg))
    ELSE Return

\* A catch block that does not look for the authentication words.
IsImmediateNoAuth(message) ==
    Includes(message, <<"pilsu">>) \/ Includes(message, <<"nurak">>)

\* A catch block that still looks for "필수 파라미터", as before the messages
\* were reworded.
IsImmediateOld(message) ==
    \/ Includes(message, <<"injeung">>)
    \/ Includes(message, <<"API ki">>)
    \/ Includes(message, <<"pilsu", " paramiteo">>)

\* The catch block's test for errors that end the call at once.
IsImmediate(message) ==
    \/ Includes(message, <<"injeung">>)     \* "인증"
    \/ Includes(message, <<"API ki">>)      \* "API 키"
    \/ Includes(message, <<"pilsu">>)       \* "필수"
    \/ Includes(message, <<"nurak">>)       \* "누락"

Min(a, b) == IF a <= b THEN a ELSE b

\* A backoff whose exponent is the attempt number itself.
BackoffDelayFromTwo(n) == Min(BaseDelay * 2 ^ n, MaxDelay)

\* Math.min(1000 * Math.pow(2, attempt - 1), 5000)
BackoffDelay(n) == Min(BaseDelay * 2 ^ (n - 1), MaxDelay)

\* A loop that stops one attempt early.
LoopConditionStrict(n, r) == n < r

\* The loop condition: attempt <= retries.
LoopCondition(n, r) == n <= r

\* A catch block that waits after every failed attempt, the last included.
ShouldRetryOnLast(n, r) == n <= r

\* The catch block's test for waiting and going round again: attempt < retries.
ShouldRetry(n, r) == n < r

\* A catch block that keeps the first error it saw.
KeepFirstError(prev, e) == IF prev = NoError THEN e ELSE prev

\* lastError = caughtError
AssignLastError(prev, e) == e

\* ------------------------------------------- messages of the bookmark side
\* "이미 북마크한 관광지입니다."
MsgDuplicate == <<"imi bukmakeuhan", " gwangwangjiipnida.">>
\* "로그인이 필요합니다."
MsgLogin == <<"rogeuini pilyohapnida.">>
\* "사용자 정보를 찾을 수 없습니다. 먼저 로그인해주세요."
MsgNoUser ==
    <<"sayongja jeongboreul ", "chajeul su eops", "seupnida. meonjeo rogeuinhaejuseyo.">>
\* "관광지 ID가 필요합니다."
MsgNeedId == <<"gwangwangji IDga pilyohapnida.">>
\* `Failed to add bookmark: ${error.message}`
MsgAddFailed(detail) == <<"Failed to add bookmark: ">> \o detail
\* the message of a foreign-key violation (SQLSTATE 23503)
MsgForeignKey ==
    <<"insert or update on table \"bookmarks\" violates foreign key constraint \"bookmarks_user_id_fkey\"">>

\* ---------------------------------------------------------------- the store
\* users(id, clerk_id): two synced accounts; "clerk_x" has signed in with the
\* identity provider and has no row.
ClerkIds == {"clerk_a", "clerk_b", "clerk_x"}
NoClerk == "none"
UsersTable ==
    {[id |-> "u1", clerk_id |-> "clerk_a"], [id |-> "u2", clerk_id |-> "clerk_b"]}
\* content ids a caller may pass: empty, blank, and two places
ContentIds == {"", " ", "c1", "c2"}
\* String.prototype.trim on these
Trim(x) == IF x = " " THEN "" ELSE x

Row(id, uid, cid, ts) ==
    [id |-> id, user_id |-> uid, content_id |-> cid, created_at |-> ts]
NoRow == Row(0, "", "", 0)

\* from("users").select("id").eq("clerk_id", clerkId).single(): one row, or
\* the error PGRST116
SelectUserSingle(U, clerkId) ==
    LET rows == {u \in U : u.clerk_id = clerkId}
    IN  IF Cardinality(rows) = 1
        THEN [code |-> "none", data |-> (CHOOSE u \in rows : TRUE).id]
        ELSE [code |-> "PGRST116", data |-> "null"]

\* An insert that does not enforce unique_user_bookmark.
InsertWithoutUnique(B, U, uid, cid, id, ts) ==
    IF uid \notin {u.id : u \in U}
    THEN [code |-> "23503", data |-> NoRow, table |-> B]
    ELSE [code |-> "none", data |-> Row(id, uid, cid, ts),
          table |-> B \cup {Row(id, uid, cid, ts)}]

\* An insert that, on a pair that has a row, refreshes that row's created_at.
InsertOrTouch(B, U, uid, cid, id, ts) ==
    IF \E b \in B : b.user_id = uid /\ b.content_id = cid
    THEN LET old == CHOOSE b \in B : b.user_id = uid /\ b.content_id = cid
         IN  [code |-> "none", data |-> Row(old.id, uid, cid, ts),
              table |-> (B \ {old}) \cup {Row(old.id, uid, cid, ts)}]
    ELSE IF uid \notin {u.id : u \in U}
    THEN [code |-> "23503", data |-> NoRow, table |-> B]
    ELSE [code |-> "none", data |-> Row(id, uid, cid, ts),
          table |-> B \cup {Row(id, uid, cid, ts)}]

\* from("bookmarks").insert({user_id, content_id}).select().single() on the
\* table of the migration: user_id references users(id); unique(user_id,
\* content_id) rejects a second row of a pair with SQLSTATE 23505.
InsertBookmark(B, U, uid, cid, id, ts) ==
    IF \E b \in B : b.user_id = uid /\ b.content_id = cid
    THEN [code |-> "23505", data |-> NoRow, table |-> B]
    ELSE IF uid \notin {u.id : u \in U}
    THEN [code |-> "23503", data |-> NoRow, table |-> B]
    ELSE [code |-> "none", data |-> Row(id, uid, cid, ts),
          table |-> B \cup {Row(id, uid, cid, ts)}]

\* A delete that filters on the user alone.
DeleteByUser(B, uid, cid) == {b \in B : b.user_id # uid}

\* from("bookmarks").delete().eq("user_id", uid).eq("content_id", cid)
DeleteBookmark(B, uid, cid) ==
    {b \in B : ~(b.user_id = uid /\ b.content_id = cid)}

\* The rows of S from the latest created_at to the earliest.
RECURSIVE OrderDescending(_)
OrderDescending(S) ==
    IF S = {} THEN <<>>
    ELSE LET first == CHOOSE b \in S : \A o \in S : o.created_at <= b.created_at
         IN  <<first>> \o OrderDescending(S \ {first})
\* The rows of S from the earliest created_at to the latest.
RECURSIVE OrderAscending(_)
OrderAscending(S) ==
    IF S = {} THEN <<>>
    ELSE LET first == CHOOSE b \in S : \A o \in S : o.created_at >= b.created_at
         IN  <<first>> \o OrderAscending(S \ {first})

\* A select that orders by created_at ascending.
SelectBookmarksAscending(B, uid) == OrderAscending({b \in B : b.user_id = uid})

\* from("bookmarks").select("*").eq("user_id", uid).order("created_at",
\* {ascending: false})
SelectBookmarks(B, uid) == OrderDescending({b \in B : b.user_id = uid})

\* ------------------------------------------------------- supabase-api.ts
Result(tag, error, data) ==
    [tag |-> tag, error |-> error, data |-> data, list |-> <<>>, flag |-> FALSE]
NoResult == Result("none", NoError, NoRow)
Thrown(e) == Result("throw", e, NoRow)
Returned(data) == Result("return", NoError, data)
\* a returned Bookmark[]
ReturnedList(q) == [Result("return", NoError, NoRow) EXCEPT !.list = q]

\* A getSupabaseUserId that falls back on the Clerk id when there is no row.
getSupabaseUserIdOrClerkId(U, clerkId) ==
    IF SelectUserSingle(U, clerkId).code = "none"
    THEN SelectUserSingle(U, clerkId).data
    ELSE clerkId

\* getSupabaseUserId: the user id, or "null" when there is no row
getSupabaseUserId(U, clerkId) == SelectUserSingle(U, clerkId).data

\* getBookmarks
getBookmarks(B, userId) == SelectBookmarks(B, userId)

\* An addBookmark that reports every insert error the same way.
addBookmarkGeneric(B, U, userId, contentId, id, ts) ==
    LET r == InsertBookmark(B, U, userId, contentId, id, ts)
    IN  IF r.code # "none" THEN Thrown(NewError(MsgAddFailed(MsgForeignKey)))
        ELSE Returned(r.data)

\* addBookmark: the created row, the duplicate error on 23505, a generic
\* error on any other insert error
addBookmark(B, U, userId, contentId, id, ts) ==
    LET r == InsertBookmark(B, U, userId, contentId, id, ts)
    IN  IF r.code # "none"
        THEN IF r.code = "23505" THEN Thrown(NewError(MsgDuplicate))
             ELSE Thrown(NewError(MsgAddFailed(MsgForeignKey)))
        ELSE Returned(r.data)

\* a returned boolean
ReturnedFlag(v) == [Result("return", NoError, NoRow) EXCEPT !.flag = v]

\* from("bookmarks").select("id").eq("user_id", uid).eq("content_id", cid)
\* .single(): the row, or PGRST116 unless exactly one row matches
SelectBookmarkSingle(B, uid, cid) ==
    LET rows == {b \in B : b.user_id = uid /\ b.content_id = cid}
    IN  IF Cardinality(rows) = 1
        THEN [code |-> "none", data |-> CHOOSE b \in rows : TRUE]
        ELSE [code |-> "PGRST116", data |-> NoRow]

\* checkBookmark: false on PGRST116, else data !== null
checkBookmark(B, userId, contentId) ==
    LET r == SelectBookmarkSingle(B, userId, contentId)
    IN  IF r.code = "PGRST116" THEN ReturnedFlag(FALSE) ELSE ReturnedFlag(TRUE)

\* removeBookmark: {success: true}
removeBookmark(B, userId, contentId) == Returned(NoRow)

\* ---------------------------------------------------- actions/bookmarks.ts
Clients == {"s1", "s2", "s3"}
\* the client whose browser shows the pages
Visitor == "s1"
Call(pcv, op, clerk, contentId, userId, result) ==
    [pc |-> pcv, op |-> op, clerk |-> clerk, contentId |-> contentId,
     userId |-> userId, result |-> result]
IdleCall == Call("idle", "none", NoClerk, "", "", NoResult)

\* ------------------------------------------- what the detail calls answer
\* null, and a value that is there
None == <<>>
Some(x) == <<x>>
\* response.response?.body?.items?.item: missing (or items is ""), an array,
\* or one object in place of the array
Absent == [form |-> "absent", elems |-> <<>>]
ArrayOf(q) == [form |-> "array", elems |-> q]
ObjectOf(x) == [form |-> "object", elems |-> <<x>>]
\* the truthiness of the field
Truthy(items) == items.form # "absent"
\* items.length: an object has none, and undefined is neither === 0 nor > 0;
\* -1 stands for it
Length(items) == IF items.form = "array" THEN Len(items.elems) ELSE -1
\* items[0], None for undefined
First(items) ==
    IF items.form = "array" /\ Len(items.elems) >= 1 THEN Some(items.elems[1])
    ELSE None

\* what detailCommon2 answers about a place
Place(contentid) == [contentid |-> contentid, contenttypeid |-> "12"]
\* an item of detailIntro2 and one of detailImage2
IntroItem(contentid) == [contentid |-> contentid, contenttypeid |-> "12"]
ImageItem(contentid, serialnum) == [contentid |-> contentid, serialnum |-> serialnum]

\* a call of the API that throws, and one that returns its item field
ApiThrows(e) == [tag |-> "throw", error |-> e, items |-> Absent]
ApiReturns(items) == [tag |-> "return", error |-> NoError, items |-> items]
\* errors fetchTourAPI throws: at once, and after the last attempt
ApiErrors == {NewError(Msg401), NewError(UserServer)}
\* "관광지 정보를 찾을 수 없습니다."
MsgPlaceNotFound == <<"gwangwangji jeongboreul ", "chajeul su eops", "seupnida.">>
\* item.contentid with item undefined
UndefinedItemError ==
    [name |-> "TypeError",
     message |-> <<"Cannot read properties of undefined (reading 'contentid')">>]
\* what notFound() throws
NotFoundSignal == [name |-> "Error", message |-> <<"NEXT_HTTP_ERROR_FALLBACK;404">>]

\* contentId is missing or blank
IsBlank(contentId) == contentId = "" \/ Trim(contentId) = ""

\* detailCommon2(contentId), fetchTourAPI answering o
detailCommon2(contentId, o) ==
    IF IsBlank(contentId) THEN ApiThrows(NewError(MsgPlaceNotFound)) ELSE o
\* detailIntro2(contentId, contentTypeId), fetchTourAPI answering o
detailIntro2(contentId, contentTypeId, o) ==
    IF IsBlank(contentId) \/ IsBlank(contentTypeId)
    THEN ApiThrows(NewError(MsgPlaceNotFound)) ELSE o
\* detailImage2(contentId), fetchTourAPI answering o
detailImage2(contentId, o) ==
    IF IsBlank(contentId) THEN ApiThrows(NewError(MsgPlaceNotFound)) ELSE o

\* what fetchTourAPI may answer to detailCommon2 for a place
CommonAnswers(contentid) ==
    {ApiThrows(e) : e \in ApiErrors}
        \cup {ApiReturns(i) : i \in {Absent, ArrayOf(<<>>), ArrayOf(<<Place(contentid)>>),
                                     ObjectOf(Place(contentid))}}
IntroAnswers(contentid) ==
    {ApiThrows(e) : e \in ApiErrors}
        \cup {ApiReturns(i) : i \in {Absent, ArrayOf(<<IntroItem(contentid)>>)}}
ImageAnswers(contentid) ==
    {ApiThrows(e) : e \in ApiErrors}
        \cup {ApiReturns(i) : i \in {Absent, ArrayOf(<<>>),
                 ArrayOf(<<ImageItem(contentid, "1"), ImageItem(contentid, "2")>>)}}

\* ------------------------------------------- app/places/[contentId]/page.tsx
DetailPage(pcv, contentId, common, detail, intro, images, out, error) ==
    [pc |-> pcv, contentId |-> contentId, common |-> common, detail |-> detail,
     intro |-> intro, images |-> images, outcome |-> out, error |-> error,
     introAnswer |-> ApiReturns(Absent), imageAnswer |-> ApiReturns(Absent)]
NoDetailPage == DetailPage("closed", "", ApiReturns(Absent), None, None, None, "none", NoError)
\* The page function ends by throwing e: notFound()'s error gives the
\* not-found page, any other the error page.
PageThrows(p, e) ==
    [p EXCEPT !.pc = "done", !.error = e,
              !.outcome = IF e = NotFoundSignal THEN "notFound" ELSE "error"]

\* ------------------------------------------------- app/bookmarks/page.tsx
\* One branch of the fan-out: not settled yet, or settled with its answer and
\* the tour it gave (None for null).
PendingTour == [settled |-> FALSE, answer |-> ApiReturns(Absent), tour |-> None]
SettledTour(answer, tour) == [settled |-> TRUE, answer |-> answer, tour |-> tour]
BookmarksPage(pcv, userId, listed, results, tours, out, error) ==
    [pc |-> pcv, userId |-> userId, bookmarks |-> listed, results |-> results,
     tours |-> tours, outcome |-> out, error |-> error]
NoBookmarksPage == BookmarksPage("closed", NoClerk, <<>>, <<>>, <<>>, "none", NoError)

\* ------------------------------------------- the query of fetchTourAPI
\* A text is the sequence of its units: a run of characters the serializer
\* of URLSearchParams leaves as they are (ASCII letters and digits, * - . _),
\* or one other character, given by its code point.
Plain(s) == [kind |-> "plain", s |-> s, cp |-> 0]
Char(cp) == [kind |-> "char", s |-> "", cp |-> cp]
Text(s) == IF s = "" THEN <<>> ELSE <<Plain(s)>>
Space == Char(32)
\* the characters of "\uACBD\uBCF5\uAD81" (Gyeongbokgung)
Gyeongbokgung == <<Char(44221), Char(48373), Char(44417)>>

\* String.prototype.trim: white space is removed at both ends
WhiteSpace == {9, 10, 11, 12, 13, 32, 160, 5760, 8232, 8233, 8239, 8287, 12288, 65279}
                  \cup 8192..8202
IsWhiteSpace(u) == u.kind = "char" /\ u.cp \in WhiteSpace
RECURSIVE trimStart(_)
trimStart(t) == IF t # <<>> /\ IsWhiteSpace(Head(t)) THEN trimStart(Tail(t)) ELSE t
RECURSIVE trimEnd(_)
trimEnd(t) ==
    IF t # <<>> /\ IsWhiteSpace(t[Len(t)]) THEN trimEnd(SubSeq(t, 1, Len(t) - 1)) ELSE t
trim(t) == trimEnd(trimStart(t))

\* the bytes of a code point in UTF-8
UTF8(cp) ==
    IF cp < 128 THEN <<cp>>
    ELSE IF cp < 2048 THEN <<192 + (cp \div 64), 128 + (cp % 64)>>
    ELSE IF cp < 65536
         THEN <<224 + (cp \div 4096), 128 + ((cp \div 64) % 64), 128 + (cp % 64)>>
         ELSE <<240 + (cp \div 262144), 128 + ((cp \div 4096) % 64),
                128 + ((cp \div 64) % 64), 128 + (cp % 64)>>
HexLower == <<"0", "1", "2", "3", "4", "5", "6", "7", "8", "9", "a", "b", "c", "d", "e", "f">>
HexUpper == <<"0", "1", "2", "3", "4", "5", "6", "7", "8", "9", "A", "B", "C", "D", "E", "F">>
\* a byte written with lower-case digits
PercentEncodeLower(b) == "%" \o HexLower[(b \div 16) + 1] \o HexLower[(b % 16) + 1]
\* a percent-encoded byte
PercentEncode(b) == "%" \o HexUpper[(b \div 16) + 1] \o HexUpper[(b % 16) + 1]
\* the application/x-www-form-urlencoded serialisation of one unit: a space
\* becomes "+", every other character outside the plain runs is
\* percent-encoded byte by byte
SerializeUnit(u) ==
    IF u.kind = "plain" THEN <<u.s>>
    ELSE IF u.cp = 32 THEN <<"+">>
    ELSE LET bytes == UTF8(u.cp) IN [i \in 1..Len(bytes) |-> PercentEncode(bytes[i])]
RECURSIVE Serialize(_)
Serialize(t) == IF t = <<>> THEN <<>> ELSE SerializeUnit(Head(t)) \o Serialize(Tail(t))
\* URLSearchParams.prototype.toString: name=value pairs joined with "&"
RECURSIVE toString(_)
toString(entries) ==
    IF entries = <<>> THEN <<>>
    ELSE <<Head(entries)[1], "=">> \o Serialize(Head(entries)[2])
            \o (IF Len(entries) = 1 THEN <<>> ELSE <<"&">> \o toString(Tail(entries)))

\* values of a parameter map, each with the text String(value) gives
Undefined == [type |-> "undefined", text |-> Text("undefined")]
\* a string value with text t, a number written as the text t
Str(t) == [type |-> "string", text |-> t]
Num(t) == [type |-> "number", text |-> t]
\* the conversion URLSearchParams applies to a value
String(v) == v.text
\* An object is the sequence of its <<key, value>> entries in insertion order.
\* const DEFAULT_PARAMS
DEFAULT_PARAMS ==
    << <<"MobileOS", Str(Text("ETC"))>>, <<"MobileApp", Str(Text("MyTrip"))>>,
       <<"_type", Str(Text("json"))>> >>
\* what getApiKey() returns
ApiKey == Str(Text("KEY"))
\* obj[k] = v: a key the object has keeps its place
Put(obj, k, v) ==
    IF \E i \in 1..Len(obj) : obj[i][1] = k
    THEN [i \in 1..Len(obj) |-> IF obj[i][1] = k THEN <<k, v>> ELSE obj[i]]
    ELSE Append(obj, <<k, v>>)
\* {...obj, ...entries}
RECURSIVE Spread(_, _)
Spread(obj, entries) ==
    IF entries = <<>> THEN obj
    ELSE Spread(Put(obj, Head(entries)[1], Head(entries)[2]), Tail(entries))
\* Object.entries(params).filter(([_, value]) => value !== undefined)
FilterDefined(entries) == SelectSeq(entries, LAMBDA en : en[2] # Undefined)
\* the entries of new URLSearchParams(obj)
SearchParams(obj) == [i \in 1..Len(obj) |-> <<obj[i][1], String(obj[i][2])>>]

\* A query built without the filter.
QueryParamsUnfiltered(params) ==
    SearchParams(Spread(Spread(Spread(<<>>, DEFAULT_PARAMS), <<<<"serviceKey", ApiKey>>>>),
                        params))

\* const queryParams = new URLSearchParams({...DEFAULT_PARAMS, serviceKey:
\* apiKey, ...Object.fromEntries(the defined entries of params)})
QueryParams(params) ==
    SearchParams(Spread(Spread(Spread(<<>>, DEFAULT_PARAMS), <<<<"serviceKey", ApiKey>>>>),
                        FilterDefined(params)))

\* parameter maps of callers: each key left out, undefined, a string or a
\* number
CallerKeys == <<"keyword", "areaCode", "pageNo", "_type">>
LeftOut == [type |-> "absent", text |-> <<>>]
ParamValues == {Undefined, Str(Text("a")), Num(Text("1"))}
ParamMap(f) ==
    SelectSeq([i \in 1..Len(CallerKeys) |-> <<CallerKeys[i], f[CallerKeys[i]]>>],
              LAMBDA en : en[2] # LeftOut)
ParamMaps ==
    {ParamMap(f) : f \in [{CallerKeys[i] : i \in 1..Len(CallerKeys)}
                            -> ParamValues \cup {LeftOut}]}
\* the parameter map of a call and the query built from it
\* the endpoint and parameter map of a call, the query built from it and the
\* query string of the url
Request(endpoint, params, queryParams) ==
    [endpoint |-> endpoint, params |-> params, queryParams |-> queryParams,
     url |-> toString(queryParams)]
NoRequest == Request("", <<>>, <<>>)

\* ------------------------------------------- the callers of fetchTourAPI
MsgNeedKeyword == <<"geomsaegeoreul ipryeokhaejuseyo.">>
\* the truthiness of a value: undefined, "" and 0 are falsy
ToBoolean(v) ==
    /\ v # Undefined
    /\ v.text # <<>>
    /\ ~(v.type = "number" /\ v.text = Text("0"))
\* a destructuring default
Default(v, d) == IF v = Undefined THEN d ELSE v
\* what a caller does after its presence checks: it throws, or it calls
\* fetchTourAPI(endpoint, params)
Rejects(error) == [tag |-> "throw", error |-> error, endpoint |-> "", params |-> <<>>]
Fetches(endpoint, params) ==
    [tag |-> "fetch", error |-> NoError, endpoint |-> endpoint, params |-> params]
\* `if (x) params.x = x` for the optional keys, in the order of the source
RECURSIVE AssignTruthy(_, _, _)
AssignTruthy(params, options, keys) ==
    IF keys = <<>> THEN params
    ELSE AssignTruthy(IF ToBoolean(options[Head(keys)])
                      THEN Put(params, Head(keys), options[Head(keys)])
                      ELSE params,
                      options, Tail(keys))
\* searchKeyword2(options); options.keyword is the text of the keyword
searchKeyword2(options) ==
    IF options.keyword = <<>> \/ Len(trim(options.keyword)) = 0
    THEN Rejects(NewError(MsgNeedKeyword))
    ELSE Fetches("/searchKeyword2",
                 AssignTruthy(<< <<"keyword", Str(trim(options.keyword))>>,
                                 <<"numOfRows", Default(options.numOfRows, Num(Text("20")))>>,
                                 <<"pageNo", Default(options.pageNo, Num(Text("1")))>>,
                                 <<"listYN", Default(options.listYN, Str(Text("Y")))>> >>,
                              options,
                              <<"areaCode", "contentTypeId", "arrange", "cat1", "cat2", "cat3">>))
\* the call detailCommon2(contentId) makes
detailCommon2Request(contentId) ==
    IF IsBlank(contentId) THEN Rejects(NewError(MsgPlaceNotFound))
    ELSE Fetches("/detailCommon2", << <<"contentId", Str(Text(Trim(contentId)))>> >>)

\* detailIntro2 without the check of the content type id.
detailIntro2RequestUnchecked(contentId, contentTypeId) ==
    IF IsBlank(contentId) THEN Rejects(NewError(MsgPlaceNotFound))
    ELSE Fetches("/detailIntro2", << <<"contentId", Str(Text(Trim(contentId)))>>,
                                     <<"contentTypeId", Str(Text(Trim(contentTypeId)))>> >>)

\* the call detailIntro2(contentId, contentTypeId) makes
detailIntro2Request(contentId, contentTypeId) ==
    IF IsBlank(contentId) THEN Rejects(NewError(MsgPlaceNotFound))
    ELSE IF IsBlank(contentTypeId) THEN Rejects(NewError(MsgPlaceNotFound))
    ELSE Fetches("/detailIntro2", << <<"contentId", Str(Text(Trim(contentId)))>>,
                                     <<"contentTypeId", Str(Text(Trim(contentTypeId)))>> >>)
\* the call detailImage2(contentId) makes
detailImage2Request(contentId) ==
    IF IsBlank(contentId) THEN Rejects(NewError(MsgPlaceNotFound))
    ELSE Fetches("/detailImage2", << <<"contentId", Str(Text(Trim(contentId)))>> >>)

\* the options of the searches made
Keywords ==
    {<<>>, <<Space>>, Gyeongbokgung, <<Space>> \o Gyeongbokgung \o <<Space>>,
     Text("a") \o <<Space>> \o Text("b")}
SearchOptions ==
    {[keyword |-> k, areaCode |-> a, contentTypeId |-> t, numOfRows |-> Undefined,
      pageNo |-> p, listYN |-> Undefined, arrange |-> Undefined, cat1 |-> Undefined,
      cat2 |-> Undefined, cat3 |-> Undefined] :
        k \in Keywords, a \in {Undefined, Str(<<>>), Str(Text("1"))},
        t \in {Undefined, Str(Text("12"))}, p \in {Undefined, Num(Text("2"))}}
ContentTypeIds == {"", " ", "12"}

\* ------------------------------------------- components/pagination.tsx
Max(a, b) == IF a >= b THEN a ELSE b
\* Array.from(new Set(pages)).sort((a, b) => a - b)
RECURSIVE SortNumbers(_)
SortNumbers(S) ==
    IF S = {} THEN <<>>
    ELSE LET least == CHOOSE n \in S : \A m \in S : n <= m
         IN  <<least>> \o SortNumbers(S \ {least})
\* the loop that writes -1 where two neighbours are not consecutive
RECURSIVE WithEllipsis(_)
WithEllipsis(uniquePages) ==
    IF Len(uniquePages) <= 1 THEN uniquePages
    ELSE <<Head(uniquePages)>>
            \o (IF uniquePages[2] - uniquePages[1] > 1 THEN <<-1>> ELSE <<>>)
            \o WithEllipsis(Tail(uniquePages))
maxVisible == 5
\* getPageNumbers() of a Pagination with these props
getPageNumbers(currentPage, totalPages) ==
    IF totalPages <= maxVisible THEN [i \in 1..totalPages |-> i]
    ELSE LET start0 == Max(2, currentPage - 1)
             end0 == Min(totalPages - 1, currentPage + 1)
             start1 == IF currentPage <= 3 THEN 2 ELSE start0
             end1 == IF currentPage <= 3 THEN Min(5, totalPages - 1) ELSE end0
             start == IF currentPage >= totalPages - 2
                      THEN Max(2, totalPages - 4) ELSE start1
             end == IF currentPage >= totalPages - 2 THEN totalPages - 1 ELSE end1
             pages == {1} \cup {i \in start..end : i # 1 /\ i # totalPages}
                          \cup {totalPages}
         IN  WithEllipsis(SortNumbers(pages))
\* What a Pagination with these props shows: nothing for one page or none.
Pagination(currentPage, totalPages) ==
    [currentPage |-> currentPage, totalPages |-> totalPages,
     shown |-> totalPages > 1,
     pageNumbers |-> IF totalPages <= 1 THEN <<>>
                     ELSE getPageNumbers(currentPage, totalPages)]
NoPagination == Pagination(1, 0)

\* ------------------------------------- components/bookmarks/bookmark-list.tsx
\* removeBookmarkAction(contentId) from its call to its end, for a caller
\* whom auth() knows as clerkUserId: what it answers and the table it leaves
removeBookmarkAction(B, U, clerkUserId, contentId) ==
    IF contentId = "" \/ Trim(contentId) = ""
    THEN [result |-> Thrown(NewError(MsgNeedId)), table |-> B]
    ELSE IF clerkUserId = NoClerk
    THEN [result |-> Thrown(NewError(MsgLogin)), table |-> B]
    ELSE LET userId == getSupabaseUserId(U, clerkUserId) IN
         IF userId = "null"
         THEN [result |-> Thrown(NewError(MsgNoUser)), table |-> B]
         ELSE [result |-> removeBookmark(B, userId, Trim(contentId)),
               table |-> DeleteBookmark(B, userId, Trim(contentId))]

\* The state of a BookmarkList: the content ids of its items, its useState
\* cells, the removals it awaits, those that resolved and those that
\* rejected since the last confirmation, whether router.refresh() was called
\* since then, and the last toast.
BookmarkList(items, selectedIds, deleteDialogOpen, deleteTarget, isDeleting, pending, resolved, rejected, refreshed, toast) ==
    [items |-> items, selectedIds |-> selectedIds, deleteDialogOpen |-> deleteDialogOpen,
     deleteTarget |-> deleteTarget, isDeleting |-> isDeleting, pending |-> pending,
     resolved |-> resolved, rejected |-> rejected, refreshed |-> refreshed, toast |-> toast]
NoBookmarkList == BookmarkList({}, {}, FALSE, None, FALSE, {}, {}, {}, FALSE, "none")
DeleteTarget(type, contentIds) == [type |-> type, contentIds |-> contentIds]

\* handleConfirmDelete after its await, with a Promise.all that rejects as
\* soon as one removal rejects.
AfterRemovalUncaught(l, contentId, r) ==
    LET l1 == [l EXCEPT !.pending = @ \ {contentId},
                        !.resolved = IF r.tag = "return" THEN @ \cup {contentId} ELSE @,
                        !.rejected = IF r.tag = "throw" THEN @ \cup {contentId} ELSE @]
    IN  IF ~l.isDeleting THEN l1
        ELSE IF r.tag = "throw"
        THEN [l1 EXCEPT !.toast = "error", !.isDeleting = FALSE]
        ELSE IF l1.pending # {} THEN l1
        ELSE [l1 EXCEPT !.toast = "success", !.selectedIds = {}, !.deleteDialogOpen = FALSE,
                        !.deleteTarget = None, !.refreshed = TRUE, !.isDeleting = FALSE]

\* The removal of contentId settles with r.  A single removal that rejects
\* is caught by handleConfirmDelete; in a batch each rejection is caught on
\* its own promise, and the handler goes on when all have settled.
AfterRemoval(l, contentId, r) ==
    LET l1 == [l EXCEPT !.pending = @ \ {contentId},
                        !.resolved = IF r.tag = "return" THEN @ \cup {contentId} ELSE @,
                        !.rejected = IF r.tag = "throw" THEN @ \cup {contentId} ELSE @]
    IN  IF l1.pending # {} THEN l1
        ELSE IF l.deleteTarget[1].type = "single" /\ r.tag = "throw"
        THEN [l1 EXCEPT !.toast = "error", !.isDeleting = FALSE]
        ELSE [l1 EXCEPT !.toast = "success", !.selectedIds = {}, !.deleteDialogOpen = FALSE,
                        !.deleteTarget = None, !.refreshed = TRUE, !.isDeleting = FALSE]

\* ---------------------------------------------------------- app/page.tsx
\* an item of a list response; the provider sends more fields than a
\* TourItem has
ListItem(contentid, title) ==
    [addr1 |-> "Seoul", addr2 |-> "", areacode |-> "1", contentid |-> contentid,
     contenttypeid |-> "12", title |-> title, mapx |-> "126.9", mapy |-> "37.5",
     firstimage |-> "", firstimage2 |-> "", tel |-> "", cat1 |-> "A02", cat2 |-> "A0201",
     cat3 |-> "A02010100", modifiedtime |-> "20240101000000",
     createdtime |-> "20230101000000"]
TourItemFields ==
    {"addr1", "addr2", "areacode", "contentid", "contenttypeid", "title", "mapx", "mapy",
     "firstimage", "firstimage2", "tel", "cat1", "cat2", "cat3", "modifiedtime"}
\* the object literal both branches of transformItems build
ToTourItem(item) == [f \in TourItemFields |-> item[f]]
\* A transformItems that only knows the array.
transformItemsArrayOnly(items) ==
    IF items.form = "array"
    THEN [i \in 1..Len(items.elems) |-> ToTourItem(items.elems[i])]
    ELSE <<>>
\* transformItems(items)
transformItems(items) ==
    IF items.form = "array"
    THEN [i \in 1..Len(items.elems) |-> ToTourItem(items.elems[i])]
    ELSE IF Truthy(items) THEN <<ToTourItem(items.elems[1])>>
    ELSE <<>>

\* what searchKeyword2 / areaBasedList2 answer: an error thrown, or a body
\* with its items.item and its totalCount (None when it is missing)
ListThrows(e) == [tag |-> "throw", error |-> e, items |-> Absent, totalCount |-> None]
ListReturns(items, totalCount) ==
    [tag |-> "return", error |-> NoError, items |-> items, totalCount |-> totalCount]
NoListAnswer == [tag |-> "none", error |-> NoError, items |-> Absent, totalCount |-> None]
ListAnswers ==
    {ListThrows(NewError(UserServer)),
     ListReturns(Absent, None),
     ListReturns(ArrayOf(<<>>), Some(0)),
     ListReturns(ArrayOf(<<ListItem("c1", "A"), ListItem("c2", "B")>>), Some(40)),
     ListReturns(ObjectOf(ListItem("c1", "A")), Some(1))}

\* a list request of the page: its number in the order of issue, the
\* function called and the options passed
ListRequest(id, api, keyword, areaCode, contentTypeId, pageNo) ==
    [id |-> id, api |-> api, keyword |-> keyword, areaCode |-> areaCode,
     contentTypeId |-> contentTypeId, pageNo |-> pageNo]
NoListRequest == ListRequest(0, "none", <<>>, Undefined, Undefined, 0)
\* The state of Home: its useState cells, the requests it awaits, the request
\* issued last with its answer once settled, and the number of requests
\* issued.
Home(searchKeyword, areaCode, contentTypeId, currentPage) ==
    [searchKeyword |-> searchKeyword, areaCode |-> areaCode,
     contentTypeId |-> contentTypeId, currentPage |-> currentPage,
     tours |-> <<>>, totalCount |-> None, loading |-> FALSE, error |-> None,
     inFlight |-> {}, latest |-> NoListRequest, latestAnswer |-> NoListAnswer,
     issued |-> 0]
\* the page after its mount: both effects have run, without a request
MountedHome == Home(None, Undefined, Undefined, 1)
itemsPerPage == 20

hasSearch(h) ==
    /\ h.searchKeyword # None
    /\ h.searchKeyword[1] # <<>>
    /\ Len(trim(h.searchKeyword[1])) > 0
hasFilters(h) == ToBoolean(h.areaCode) \/ ToBoolean(h.contentTypeId)
\* fetchTours() up to its await or its early return
fetchTours(h) ==
    IF ~hasSearch(h) /\ ~hasFilters(h)
    THEN [h EXCEPT !.tours = <<>>, !.totalCount = None, !.loading = FALSE, !.error = None]
    ELSE LET r == ListRequest(h.issued + 1,
                              IF hasSearch(h) THEN "searchKeyword2" ELSE "areaBasedList2",
                              IF hasSearch(h) THEN trim(h.searchKeyword[1]) ELSE <<>>,
                              h.areaCode, h.contentTypeId, h.currentPage)
         IN  [h EXCEPT !.loading = TRUE, !.error = None, !.inFlight = @ \cup {r},
                       !.latest = r, !.latestAnswer = NoListAnswer, !.issued = @ + 1]
\* the dependencies of the page reset effect
ResetDeps(h) == <<h.searchKeyword, h.areaCode, h.contentTypeId>>

\* The render after a state change with only the fetch effect.
AfterChangeNoReset(h0, h1) ==
    IF ResetDeps(h1) = ResetDeps(h0) /\ h1.currentPage = h0.currentPage THEN h1
    ELSE fetchTours(h1)

\* The render after a state change from h0 to h1: the fetch effect runs when
\* one of its dependencies changed, then the reset effect when one of its
\* dependencies changed; setCurrentPage(1) with another current page renders
\* again, and the fetch effect runs again.
AfterChange(h0, h1) ==
    IF ResetDeps(h1) = ResetDeps(h0) /\ h1.currentPage = h0.currentPage THEN h1
    ELSE LET h2 == fetchTours(h1) IN
         IF ResetDeps(h1) # ResetDeps(h0) /\ h2.currentPage # 1
         THEN fetchTours([h2 EXCEPT !.currentPage = 1])
         ELSE h2

\* fetchTours() after its await, the request r settling with answer a
AfterList(h, r, a) ==
    LET h1 == [h EXCEPT !.inFlight = @ \ {r},
                        !.latestAnswer = IF r = h.latest THEN a ELSE @]
    IN  IF a.tag = "throw"
        THEN [h1 EXCEPT !.error = Some(a.error.message), !.tours = <<>>,
                        !.totalCount = None, !.loading = FALSE]
        ELSE [h1 EXCEPT !.totalCount = IF a.totalCount # None THEN a.totalCount ELSE @,
                        !.tours = IF Truthy(a.items) THEN transformItems(a.items) ELSE <<>>,
                        !.loading = FALSE]
\* const totalPages of Home
homeTotalPages(h) ==
    IF h.totalCount = None \/ h.totalCount = Some(0) THEN 0
    ELSE (h.totalCount[1] + itemsPerPage - 1) \div itemsPerPage

VARIABLES retries, attempt, pc, outcome, lastError, caught, fetchCount, delays,
          thrown, request,
          users, bookmarks, nextId, call, overlap, removedSince,
          button, detailPage, bookmarksPage, pagination, list, home

fetchVars == <<retries, attempt, pc, outcome, lastError, caught, fetchCount,
               delays, thrown, request>>
storeVars == <<users, bookmarks, nextId>>
callVars == <<call, overlap, removedSince>>
clientVars == <<pagination, list, home>>
pageVars == <<detailPage, bookmarksPage, clientVars>>
uiVars == <<button, pageVars>>
vars == <<fetchVars, storeVars, callVars, uiVars>>

\* The state of a BookmarkButton: useAuth's userId and isLoaded, the three
\* useState cells, the server action the component awaits, the last toast,
\* the number of add/remove actions called for the last click, and whether
\* the last click ran handleToggle or fell on the disabled button.
Button(userId, isLoaded, isBookmarked, isLoading, isChecking, pending, toast, calls) ==
    [userId |-> userId, isLoaded |-> isLoaded, isBookmarked |-> isBookmarked,
     isLoading |-> isLoading, isChecking |-> isChecking, pending |-> pending,
     toast |-> toast, calls |-> calls, lastClick |-> "none"]
\* mounted, Clerk not loaded yet, the first effect has run
MountedButton == Button(NoClerk, FALSE, FALSE, FALSE, FALSE, "none", "none", 0)

\* A server action is between its first await and its end.
InFlight(c) == call[c].pc \in {"lookup", "write"}

\* No call has been made.
Init ==
    /\ retries = DefaultRetries
    /\ attempt = 0
    /\ pc = "idle"
    /\ outcome = NoResponse
    /\ lastError = NoError
    /\ caught = {}
    /\ fetchCount = 0
    /\ delays = <<>>
    /\ thrown = NoError
    /\ request = NoRequest
    /\ users = UsersTable
    /\ bookmarks = {}
    /\ nextId = 0
    /\ call = [c \in Clients |-> IdleCall]
    /\ overlap = [c \in Clients |-> {}]
    /\ removedSince = [c \in Clients |-> FALSE]
    /\ button = MountedButton
    /\ detailPage = NoDetailPage
    /\ bookmarksPage = NoBookmarksPage
    /\ pagination = NoPagination
    /\ list = NoBookmarkList
    /\ home = MountedHome

\* fetchTourAPI(endpoint, params, r) up to its first await: the loop is
\* entered when 1 <= r, otherwise the function throws its fallback error.
CallFetchTourAPI(r) ==
    /\ pc = "idle"
    /\ retries' = r
    /\ attempt' = 1
    /\ IF LoopCondition(1, r)
       THEN pc' = "fetch" /\ thrown' = thrown
       ELSE pc' = "thrown" /\ thrown' = NewError(MsgFallback)
    /\ UNCHANGED <<outcome, lastError, caught, fetchCount, delays>>
    /\ UNCHANGED <<request, storeVars, callVars, uiVars>>

\* One fetch settles with o and the loop body runs to its next await, its
\* return or its throw.  An error that is neither immediate nor retried
\* falls out of the catch block: the loop counter advances and, the loop
\* condition failing, the translated last error is thrown in the same turn.
FetchAttempt(o) ==
    /\ pc = "fetch"
    /\ outcome' = o
    /\ fetchCount' = fetchCount + 1
    /\ LET res == TryAttempt(o) IN
       IF res.tag = "return"
       THEN /\ pc' = "returned"
            /\ UNCHANGED <<attempt, lastError, caught, thrown>>
       ELSE /\ lastError' = AssignLastError(lastError, res.error)
            /\ caught' = caught \cup {res.error}
            /\ IF IsImmediate(res.error.message)
               THEN pc' = "thrown" /\ thrown' = res.error /\ attempt' = attempt
               ELSE IF ShouldRetry(attempt, retries)
               THEN pc' = "wait" /\ thrown' = thrown /\ attempt' = attempt
               ELSE /\ attempt' = attempt + 1
                    /\ IF LoopCondition(attempt + 1, retries)
                       THEN pc' = "fetch" /\ thrown' = thrown
                       ELSE /\ pc' = "thrown"
                            /\ thrown' = NewError(formatError(lastError'))
    /\ UNCHANGED <<retries, delays>>
    /\ UNCHANGED <<request, storeVars, callVars, uiVars>>

\* The backoff timer fires; `continue` advances the loop counter and the
\* loop condition decides between the next fetch and the final throw.
WaitBackoff ==
    /\ pc = "wait"
    /\ delays' = Append(delays, BackoffDelay(attempt))
    /\ attempt' = attempt + 1
    /\ IF LoopCondition(attempt + 1, retries)
       THEN pc' = "fetch" /\ thrown' = thrown
       ELSE pc' = "thrown" /\ thrown' = NewError(formatError(lastError))
    /\ UNCHANGED <<retries, outcome, lastError, caught, fetchCount>>
    /\ UNCHANGED <<request, storeVars, callVars, uiVars>>

FetchStep == (\E o \in Responses : FetchAttempt(o)) \/ WaitBackoff

\* One call of fetchTourAPI with any attempt cap.
NextFetch == (\E r \in 0..MaxRetries : CallFetchTourAPI(r)) \/ FetchStep
SpecFetch == Init /\ [][NextFetch]_vars

\* fetchTourAPI(endpoint, params) builds its query.
BuildQuery(params) ==
    /\ request' = Request("/areaBasedList2", params, QueryParams(params))
    /\ UNCHANGED <<retries, attempt, pc, outcome, lastError, caught, fetchCount,
                   delays, thrown>>
    /\ UNCHANGED <<storeVars, callVars, uiVars>>

\* Calls of fetchTourAPI with every parameter map, up to the query.
NextQuery == \E params \in ParamMaps : BuildQuery(params)
SpecQuery == Init /\ [][NextQuery]_vars

\* A caller runs up to the first await of fetchTourAPI: it throws at its
\* presence check, or fetchTourAPI builds the query and enters its loop with
\* the default attempt cap.
CallApi(c) ==
    /\ pc = "idle"
    /\ IF c.tag = "throw"
       THEN /\ pc' = "thrown"
            /\ thrown' = c.error
            /\ UNCHANGED <<retries, attempt, request>>
       ELSE /\ request' = Request(c.endpoint, c.params, QueryParams(c.params))
            /\ retries' = DefaultRetries
            /\ attempt' = 1
            /\ IF LoopCondition(1, DefaultRetries)
               THEN pc' = "fetch" /\ thrown' = thrown
               ELSE pc' = "thrown" /\ thrown' = NewError(MsgFallback)
    /\ UNCHANGED <<outcome, lastError, caught, fetchCount, delays>>
    /\ UNCHANGED <<storeVars, callVars, uiVars>>
CallSearchKeyword2(options) == CallApi(searchKeyword2(options))
CallDetailCommon2(contentId) == CallApi(detailCommon2Request(contentId))
CallDetailIntro2(contentId, contentTypeId) ==
    CallApi(detailIntro2Request(contentId, contentTypeId))
CallDetailImage2(contentId) == CallApi(detailImage2Request(contentId))

\* One call of a Tour API function.
NextApi ==
    \/ \E options \in SearchOptions : CallSearchKeyword2(options)
    \/ \E contentId \in ContentIds : CallDetailCommon2(contentId)
    \/ \E contentId \in ContentIds, contentTypeId \in ContentTypeIds :
          CallDetailIntro2(contentId, contentTypeId)
    \/ \E contentId \in ContentIds : CallDetailImage2(contentId)
    \/ FetchStep
SpecApi == Init /\ [][NextApi]_vars

\* A start that does not test what auth() gave.
StartActionWithoutAuthCheck(c, op, contentId, clerkUserId) ==
    /\ call[c].pc \in {"idle", "done"}
    /\ LET bad == contentId = "" \/ Trim(contentId) = ""
           others == {d \in Clients \ {c} : InFlight(d)}
       IN  /\ call' = [call EXCEPT ![c] =
                IF bad
                THEN Call("done", op, NoClerk, contentId, "", Thrown(NewError(MsgNeedId)))
                ELSE Call("lookup", op, clerkUserId, contentId, "", NoResult)]
           /\ overlap' = [d \in Clients |->
                IF d = c THEN (IF ~bad THEN others ELSE {})
                ELSE IF ~bad /\ d \in others THEN overlap[d] \cup {c}
                ELSE overlap[d]]
    /\ removedSince' = [removedSince EXCEPT ![c] = FALSE]
    /\ UNCHANGED <<fetchVars, storeVars>>

\* ------------------------------------------------- the server actions
\* The start of addBookmarkAction / removeBookmarkAction: the parameter is
\* checked, then auth() tells the Clerk user id.  The action throws here or
\* goes on to look the user up.
StartAction(c, op, contentId, clerkUserId) ==
    /\ call[c].pc \in {"idle", "done"}
    /\ LET bad == contentId = "" \/ Trim(contentId) = ""
           goes == ~bad /\ clerkUserId # NoClerk
           others == {d \in Clients \ {c} : InFlight(d)}
       IN  /\ call' = [call EXCEPT ![c] =
                IF bad
                THEN Call("done", op, NoClerk, contentId, "", Thrown(NewError(MsgNeedId)))
                ELSE IF clerkUserId = NoClerk
                THEN Call("done", op, NoClerk, contentId, "", Thrown(NewError(MsgLogin)))
                ELSE Call("lookup", op, clerkUserId, contentId, "", NoResult)]
           /\ overlap' = [d \in Clients |->
                IF d = c THEN (IF goes THEN others ELSE {})
                ELSE IF goes /\ d \in others THEN overlap[d] \cup {c}
                ELSE overlap[d]]
    /\ removedSince' = [removedSince EXCEPT ![c] = FALSE]
    /\ UNCHANGED <<fetchVars, storeVars>>

\* Inserts in flight or done never exceed the budget of ids.
AddsInFlight == Cardinality({d \in Clients : InFlight(d) /\ call[d].op = "add"})

\* addBookmarkAction(contentId) is called.
StartAddBookmarkAction(c, contentId, clerkUserId) ==
    /\ nextId + AddsInFlight < MaxInserts
    /\ StartAction(c, "add", contentId, clerkUserId)

\* removeBookmarkAction(contentId) is called.
StartRemoveBookmarkAction(c, contentId, clerkUserId) ==
    StartAction(c, "remove", contentId, clerkUserId)

\* getBookmarksAction() is called: auth() tells the Clerk user id, and the
\* action throws here or goes on to look the user up.
StartGetBookmarksAction(c, clerkUserId) ==
    /\ call[c].pc \in {"idle", "done"}
    /\ LET goes == clerkUserId # NoClerk
           others == {d \in Clients \ {c} : InFlight(d)}
       IN  /\ call' = [call EXCEPT ![c] =
                IF clerkUserId = NoClerk
                THEN Call("done", "list", NoClerk, "", "", Thrown(NewError(MsgLogin)))
                ELSE Call("lookup", "list", clerkUserId, "", "", NoResult)]
           /\ overlap' = [d \in Clients |->
                IF d = c THEN (IF goes THEN others ELSE {})
                ELSE IF goes /\ d \in others THEN overlap[d] \cup {c}
                ELSE overlap[d]]
    /\ removedSince' = [removedSince EXCEPT ![c] = FALSE]
    /\ UNCHANGED <<fetchVars, storeVars>>

\* getSupabaseUserId answers: without a users row the action throws.
LookupUser(c) ==
    /\ call[c].pc = "lookup"
    /\ LET id == getSupabaseUserId(users, call[c].clerk)
       IN  call' = [call EXCEPT ![c] =
                IF id = "null"
                THEN [@ EXCEPT !.pc = "done", !.result = Thrown(NewError(MsgNoUser))]
                ELSE [@ EXCEPT !.pc = "write", !.userId = id]]
    /\ UNCHANGED <<fetchVars, storeVars, overlap, removedSince>>

\* addBookmark answers and addBookmarkAction ends.
FinishAddBookmarkAction(c) ==
    /\ call[c].pc = "write" /\ call[c].op = "add"
    /\ LET id == nextId + 1
           r == InsertBookmark(bookmarks, users, call[c].userId, call[c].contentId,
                               id, id)
       IN  /\ bookmarks' = r.table
           /\ nextId' = IF r.code = "none" THEN id ELSE nextId
           /\ call' = [call EXCEPT ![c] = [@ EXCEPT !.pc = "done",
                  !.result = addBookmark(bookmarks, users, call[c].userId,
                                         call[c].contentId, id, id)]]
    /\ removedSince' = [removedSince EXCEPT ![c] = FALSE]
    /\ UNCHANGED <<fetchVars, users, overlap>>

\* removeBookmark answers and removeBookmarkAction ends.
FinishRemoveBookmarkAction(c) ==
    /\ call[c].pc = "write" /\ call[c].op = "remove"
    /\ bookmarks' = DeleteBookmark(bookmarks, call[c].userId, call[c].contentId)
    /\ call' = [call EXCEPT ![c] = [@ EXCEPT !.pc = "done",
           !.result = removeBookmark(bookmarks, call[c].userId, call[c].contentId)]]
    /\ removedSince' = [d \in Clients |->
           IF /\ bookmarks' # bookmarks
              /\ call[d].op = "add" /\ call[d].pc = "done"
              /\ call[d].userId = call[c].userId
              /\ call[d].contentId = call[c].contentId
           THEN TRUE ELSE removedSince[d]]
    /\ UNCHANGED <<fetchVars, users, nextId, overlap>>

\* getBookmarks answers and getBookmarksAction ends.
FinishGetBookmarksAction(c) ==
    /\ call[c].pc = "write" /\ call[c].op = "list"
    /\ call' = [call EXCEPT ![c] = [@ EXCEPT !.pc = "done",
           !.result = ReturnedList(getBookmarks(bookmarks, call[c].userId))]]
    /\ UNCHANGED <<fetchVars, storeVars, overlap, removedSince>>

\* checkBookmark(supabase, userId, contentId) is called by a component of
\* client c and answers.
CallCheckBookmark(c, userId, contentId) ==
    /\ call[c].pc \in {"idle", "done"}
    /\ call' = [call EXCEPT ![c] =
           Call("done", "check", NoClerk, contentId, userId,
                checkBookmark(bookmarks, userId, contentId))]
    /\ overlap' = [overlap EXCEPT ![c] = {}]
    /\ removedSince' = [removedSince EXCEPT ![c] = FALSE]
    /\ UNCHANGED <<fetchVars, storeVars>>

\* The reading steps of client c, whose sessions are in K (the user lookup
\* is the one of ClientStep).
ReaderStep(c, K) ==
    \/ \E k \in K : StartGetBookmarksAction(c, k) /\ UNCHANGED uiVars
    \/ FinishGetBookmarksAction(c) /\ UNCHANGED uiVars

\* The steps of client c, whose sessions are in K and whose arguments are in C.
ClientStep(c, K, C) ==
    \/ \E cid \in C, k \in K :
            StartAddBookmarkAction(c, cid, k) /\ UNCHANGED uiVars
    \/ \E cid \in C, k \in K :
            StartRemoveBookmarkAction(c, cid, k) /\ UNCHANGED uiVars
    \/ LookupUser(c) /\ UNCHANGED uiVars
    \/ FinishAddBookmarkAction(c) /\ UNCHANGED uiVars
    \/ FinishRemoveBookmarkAction(c) /\ UNCHANGED uiVars

\* Any number of server actions of the clients, interleaved at their awaits.
Sessions == ClerkIds \cup {NoClerk}
NextBookmarks == \E c \in {"s1", "s2"} : ClientStep(c, Sessions, ContentIds)
SpecBookmarks == Init /\ [][NextBookmarks]_vars

\* Two clients that write and read, with well-formed content ids.
NextReads ==
    \E c \in {"s1", "s2"} :
        ClientStep(c, Sessions, {"c1", "c2"}) \/ ReaderStep(c, Sessions)
SpecReads == Init /\ [][NextReads]_vars

\* Two clients of the two synced users calling every operation of the gateway.
NextGateway ==
    \E c \in {"s1", "s2"} :
        \/ ClientStep(c, {"clerk_a", "clerk_b"}, {"c1", "c2"})
        \/ ReaderStep(c, {"clerk_a", "clerk_b"})
        \/ \E uid \in {"u1", "u2"}, cid \in {"c1", "c2"} :
                CallCheckBookmark(c, uid, cid) /\ UNCHANGED uiVars
SpecGateway == Init /\ [][NextGateway]_vars

\* Three clients of the two synced users, all after the same place.
NextRace == \E c \in Clients : ClientStep(c, {"clerk_a", "clerk_b"}, {"c1"})
SpecRace == Init /\ [][NextRace]_vars

\* ------------------------------------------------------ bookmark-button.tsx
\* the contentId prop of the button
ButtonContentId == "c1"
\* bookmarks.some((bookmark) => bookmark.content_id === contentId)
SomeBookmark(q, contentId) == \E i \in 1..Len(q) : q[i].content_id = contentId
\* errorMessage.includes("이미 북마크한") || errorMessage.includes("already")
IsDuplicateMessage(message) ==
    Includes(message, <<"imi bukmakeuhan">>) \/ Includes(message, <<"already">>)
\* A button disabled only while a toggle is running.
isDisabledWhileLoading(b) == b.isLoading
\* const isDisabled = !isLoaded || isChecking || isLoading
isDisabled(b) == ~b.isLoaded \/ b.isChecking \/ b.isLoading

\* A handleToggle whose catch block knows no duplicate error.
AfterToggleNoDuplicate(b, r) ==
    IF r.tag = "return"
    THEN [b EXCEPT !.isBookmarked = (b.pending = "add"), !.toast = "success",
                   !.isLoading = FALSE, !.pending = "none"]
    ELSE [b EXCEPT !.toast = "error", !.isLoading = FALSE, !.pending = "none"]

\* handleToggle after its await: the try block's tail, or the catch block,
\* then finally.
AfterToggle(b, r) ==
    IF r.tag = "return"
    THEN [b EXCEPT !.isBookmarked = (b.pending = "add"), !.toast = "success",
                   !.isLoading = FALSE, !.pending = "none"]
    ELSE IF IsDuplicateMessage(r.error.message)
    THEN [b EXCEPT !.isBookmarked = TRUE, !.toast = "info",
                   !.isLoading = FALSE, !.pending = "none"]
    ELSE [b EXCEPT !.toast = "error", !.isLoading = FALSE, !.pending = "none"]

\* checkBookmarkStatus after its await
AfterCheck(b, r) ==
    [b EXCEPT !.isBookmarked = IF r.tag = "return"
                               THEN SomeBookmark(r.list, ButtonContentId)
                               ELSE FALSE,
              !.isChecking = FALSE, !.pending = "none"]

\* useAuth has loaded with the session k and the effect runs
\* checkBookmarkStatus: signed out it clears the flags, signed in it calls
\* getBookmarksAction.
AuthLoaded(k) ==
    /\ ~button.isLoaded
    /\ IF k = NoClerk
       THEN /\ button' = [button EXCEPT !.isLoaded = TRUE, !.userId = k,
                              !.isChecking = FALSE, !.isBookmarked = FALSE]
            /\ UNCHANGED callVars
       ELSE /\ button' = [button EXCEPT !.isLoaded = TRUE, !.userId = k,
                              !.isChecking = TRUE, !.pending = "check"]
            /\ StartGetBookmarksAction(Visitor, k)
    /\ UNCHANGED <<fetchVars, storeVars, pageVars>>

\* getBookmarksAction has settled and checkBookmarkStatus goes on.
CheckSettled ==
    /\ button.pending = "check" /\ call[Visitor].pc = "done"
    /\ button' = AfterCheck(button, call[Visitor].result)
    /\ UNCHANGED <<fetchVars, storeVars, callVars, pageVars>>

\* A click on the enabled button runs handleToggle up to its await.
HandleToggle ==
    /\ ~isDisabled(button)
    /\ IF button.userId = NoClerk
       THEN /\ button' = [button EXCEPT !.toast = "login", !.calls = 0,
                              !.lastClick = "handled"]
            /\ UNCHANGED <<fetchVars, storeVars, callVars>>
       ELSE IF button.isLoading
       THEN UNCHANGED vars
       ELSE IF button.isBookmarked
       THEN /\ button' = [button EXCEPT !.isLoading = TRUE, !.pending = "remove",
                              !.toast = "none", !.calls = 1, !.lastClick = "handled"]
            /\ StartRemoveBookmarkAction(Visitor, ButtonContentId, button.userId)
       ELSE /\ button' = [button EXCEPT !.isLoading = TRUE, !.pending = "add",
                              !.toast = "none", !.calls = 1, !.lastClick = "handled"]
            /\ StartAddBookmarkAction(Visitor, ButtonContentId, button.userId)
    /\ UNCHANGED pageVars

\* A click on the disabled button: no handler runs.
ClickDisabled ==
    /\ isDisabled(button)
    /\ button' = [button EXCEPT !.lastClick = "ignored"]
    /\ UNCHANGED <<fetchVars, storeVars, callVars, pageVars>>

\* The awaited add or remove action has settled and handleToggle goes on.
ToggleSettled ==
    /\ button.pending \in {"add", "remove"} /\ call[Visitor].pc = "done"
    /\ button' = AfterToggle(button, call[Visitor].result)
    /\ UNCHANGED <<fetchVars, storeVars, callVars, pageVars>>

\* The server's steps of the action that client c awaits.
ServerStep(c) ==
    \/ LookupUser(c) /\ UNCHANGED uiVars
    \/ FinishGetBookmarksAction(c) /\ UNCHANGED uiVars
    \/ FinishAddBookmarkAction(c) /\ UNCHANGED uiVars
    \/ FinishRemoveBookmarkAction(c) /\ UNCHANGED uiVars

\* The visitor's button for one place, while the same user's other tab adds
\* and removes the bookmark of that place.
ButtonSessions == {NoClerk, "clerk_a", "clerk_x"}
NextButton ==
    \/ \E k \in ButtonSessions : AuthLoaded(k)
    \/ CheckSettled
    \/ HandleToggle
    \/ ClickDisabled
    \/ ToggleSettled
    \/ ServerStep(Visitor)
    \/ ClientStep("s2", {"clerk_a"}, {ButtonContentId})
SpecButton == Init /\ [][NextButton]_vars

\* "관광지 정보를 불러오는 중 오류가 발생했습니다."
MsgPlaceLoadFailed == <<"gwangwangji jeongboreul bulreooneun jung oryuga balsaenghaessseupnida.">>

\* A page whose catch block replaces every caught error by its own.
AfterCommonWrapping(p, r) ==
    IF r.tag = "throw" THEN PageThrows(p, NewError(MsgPlaceLoadFailed))
    ELSE IF ~Truthy(r.items) \/ Length(r.items) = 0
    THEN PageThrows([p EXCEPT !.common = r], NewError(MsgPlaceLoadFailed))
    ELSE IF First(r.items) = None
    THEN PageThrows([p EXCEPT !.common = r], NewError(MsgPlaceLoadFailed))
    ELSE [p EXCEPT !.common = r, !.detail = First(r.items), !.pc = "intro"]

\* The page after `await detailCommon2(contentId)`: a thrown error, the
\* notFound() for no items and the TypeError of items[0].contentid all land in
\* the outer catch and are thrown again after it.
AfterCommon(p, r) ==
    IF r.tag = "throw" THEN PageThrows([p EXCEPT !.common = r], r.error)
    ELSE IF ~Truthy(r.items) \/ Length(r.items) = 0
    THEN PageThrows([p EXCEPT !.common = r], NotFoundSignal)
    ELSE IF First(r.items) = None
    THEN PageThrows([p EXCEPT !.common = r], UndefinedItemError)
    ELSE [p EXCEPT !.common = r, !.detail = First(r.items), !.pc = "intro"]

\* A page that gives up when detailIntro2 fails.
AfterIntroStrict(p, r) ==
    IF r.tag = "throw" THEN PageThrows([p EXCEPT !.introAnswer = r], r.error)
    ELSE IF Truthy(r.items) /\ Length(r.items) > 0
    THEN [p EXCEPT !.introAnswer = r, !.intro = First(r.items), !.pc = "image"]
    ELSE [p EXCEPT !.introAnswer = r, !.pc = "image"]

\* The page after `await detailIntro2(...)`: its own catch block keeps a
\* failure from the rest.
AfterIntro(p, r) ==
    IF r.tag = "throw" THEN [p EXCEPT !.introAnswer = r, !.pc = "image"]
    ELSE IF Truthy(r.items) /\ Length(r.items) > 0
    THEN [p EXCEPT !.introAnswer = r, !.intro = First(r.items), !.pc = "image"]
    ELSE [p EXCEPT !.introAnswer = r, !.pc = "image"]

\* The page after `await detailImage2(...)`, up to the rendering.
AfterImage(p, r) ==
    IF r.tag = "throw"
    THEN [p EXCEPT !.imageAnswer = r, !.pc = "done", !.outcome = "rendered"]
    ELSE IF Truthy(r.items) /\ Length(r.items) > 0
    THEN [p EXCEPT !.imageAnswer = r, !.images = Some(r.items.elems),
                   !.pc = "done", !.outcome = "rendered"]
    ELSE [p EXCEPT !.imageAnswer = r, !.pc = "done", !.outcome = "rendered"]

\* /places/[contentId] is requested.
OpenPlaceDetailPage(contentId) ==
    /\ detailPage.pc \in {"closed", "done"}
    /\ detailPage' =
         IF IsBlank(contentId)
         THEN PageThrows([NoDetailPage EXCEPT !.contentId = contentId], NotFoundSignal)
         ELSE [NoDetailPage EXCEPT !.contentId = contentId, !.pc = "common"]
    /\ UNCHANGED <<fetchVars, storeVars, callVars, button, bookmarksPage, clientVars>>

\* detailCommon2 settles.
DetailCommonSettled(o) ==
    /\ detailPage.pc = "common"
    /\ detailPage' = AfterCommon(detailPage, detailCommon2(detailPage.contentId, o))
    /\ UNCHANGED <<fetchVars, storeVars, callVars, button, bookmarksPage, clientVars>>

\* detailIntro2 settles.
DetailIntroSettled(o) ==
    /\ detailPage.pc = "intro"
    /\ detailPage' = AfterIntro(detailPage,
           detailIntro2(detailPage.detail[1].contentid,
                        detailPage.detail[1].contenttypeid, o))
    /\ UNCHANGED <<fetchVars, storeVars, callVars, button, bookmarksPage, clientVars>>

\* detailImage2 settles and the page renders.
DetailImageSettled(o) ==
    /\ detailPage.pc = "image"
    /\ detailPage' = AfterImage(detailPage,
           detailImage2(detailPage.detail[1].contentid, o))
    /\ UNCHANGED <<fetchVars, storeVars, callVars, button, bookmarksPage, clientVars>>

NextDetailPage ==
    \/ \E cid \in ContentIds : OpenPlaceDetailPage(cid)
    \/ \E o \in CommonAnswers(Trim(detailPage.contentId)) : DetailCommonSettled(o)
    \/ \E o \in IntroAnswers(detailPage.contentId) : DetailIntroSettled(o)
    \/ \E o \in ImageAnswers(detailPage.contentId) : DetailImageSettled(o)

\* the TourItem made of an item of detailCommon2
TourItem(item) ==
    [contentid |-> item.contentid, contenttypeid |-> item.contenttypeid, areacode |-> ""]

\* A branch of the fan-out after `await detailCommon2(bookmark.content_id)`:
\* null for a thrown error, for no items, and for the TypeError of
\* items[0].contentid, which the branch's own catch block takes.
TourOfAnswer(r) ==
    IF r.tag = "throw" THEN None
    ELSE IF ~Truthy(r.items) \/ Length(r.items) = 0 THEN None
    ELSE IF First(r.items) = None THEN None
    ELSE Some(TourItem(First(r.items)[1]))

\* tourResults.filter((tour) => tour !== null)
NonNullTours(results) ==
    LET kept == SelectSeq(results, LAMBDA r : r.tour # None)
    IN  [i \in 1..Len(kept) |-> kept[i].tour[1]]

\* tables the visitor's listing may be read from
BookmarkTables ==
    SUBSET {Row(1, "u1", "c1", 1), Row(2, "u1", "c2", 2), Row(3, "u2", "c1", 3)}

\* /bookmarks is requested: auth(), and redirectToSignIn() when signed out.
OpenBookmarksPage(k) ==
    /\ bookmarksPage.pc \in {"closed", "done"}
    /\ bookmarksPage' =
         IF k = NoClerk
         THEN [NoBookmarksPage EXCEPT !.pc = "done", !.outcome = "redirect"]
         ELSE [NoBookmarksPage EXCEPT !.pc = "list", !.userId = k]
    /\ UNCHANGED <<fetchVars, storeVars, callVars, button, detailPage, clientVars>>

\* getBookmarksAction settles, reading the table B: a failure or an empty
\* list renders the empty page, a list starts one detailCommon2 per bookmark.
BookmarksListed(B) ==
    /\ bookmarksPage.pc = "list"
    /\ LET uid == getSupabaseUserId(UsersTable, bookmarksPage.userId)
           q == getBookmarks(B, uid)
       IN  bookmarksPage' =
             IF uid = "null"
             THEN [bookmarksPage EXCEPT !.pc = "done", !.outcome = "rendered",
                                        !.error = NewError(MsgNoUser)]
             ELSE IF Len(q) = 0
             THEN [bookmarksPage EXCEPT !.pc = "done", !.outcome = "rendered"]
             ELSE [bookmarksPage EXCEPT !.pc = "fanout", !.bookmarks = q,
                                        !.results = [i \in 1..Len(q) |-> PendingTour]]
    /\ UNCHANGED <<fetchVars, storeVars, callVars, button, detailPage, clientVars>>

\* The detailCommon2 of the i-th bookmark settles; after the last one
\* Promise.all resolves and the page renders the tours that are not null.
TourSettled(i, o) ==
    /\ bookmarksPage.pc = "fanout"
    /\ i \in 1..Len(bookmarksPage.results)
    /\ ~bookmarksPage.results[i].settled
    /\ LET r == detailCommon2(bookmarksPage.bookmarks[i].content_id, o)
           results == [bookmarksPage.results EXCEPT ![i] = SettledTour(r, TourOfAnswer(r))]
       IN  bookmarksPage' =
             IF \A j \in 1..Len(results) : results[j].settled
             THEN [bookmarksPage EXCEPT !.results = results, !.pc = "done",
                        !.tours = NonNullTours(results), !.outcome = "rendered"]
             ELSE [bookmarksPage EXCEPT !.results = results]
    /\ UNCHANGED <<fetchVars, storeVars, callVars, button, detailPage, clientVars>>

NextBookmarksPage ==
    \/ \E k \in {NoClerk, "clerk_a", "clerk_x"} : OpenBookmarksPage(k)
    \/ \E B \in BookmarkTables : BookmarksListed(B)
    \/ \E i \in 1..Len(bookmarksPage.results) :
         \E o \in CommonAnswers(bookmarksPage.bookmarks[i].content_id) : TourSettled(i, o)

\* Requests for the place detail page and for the bookmarks page.
NextPages == NextDetailPage \/ NextBookmarksPage
SpecPages == Init /\ [][NextPages]_vars

\* Two clients, signed out or signed in, call the three actions, with blank
\* content ids among the parameters.
GuestSessions == {NoClerk, "clerk_a"}
GuestContentIds == {"", " ", "c1"}
NextGuest ==
    \E c \in {"s1", "s2"} :
        \/ ClientStep(c, GuestSessions, GuestContentIds)
        \/ ReaderStep(c, GuestSessions)
SpecGuest == Init /\ [][NextGuest]_vars

\* ------------------------------------------------------------ Pagination
\* The component is rendered with a current page among totalPages pages.
RenderPagination(currentPage, totalPages) ==
    /\ pagination' = Pagination(currentPage, totalPages)
    /\ UNCHANGED <<fetchVars, storeVars, callVars, button, detailPage, bookmarksPage, list, home>>

NextPagination ==
    \E totalPages \in 1..MaxPages : \E currentPage \in 1..totalPages :
        RenderPagination(currentPage, totalPages)
SpecPagination == Init /\ [][NextPagination]_vars

\* ---------------------------------------------------------- BookmarkList
\* the signed-in visitor of the bookmarks page and their users row
ListClerk == "clerk_a"
ListUser == "u1"
\* /bookmarks renders the list with the visitor's bookmarks; without any the
\* component renders nothing.
MountBookmarkList ==
    /\ ~list.isDeleting
    /\ LET items == {b.content_id : b \in {o \in bookmarks : o.user_id = ListUser}}
       IN  /\ items # {}
           /\ list' = [NoBookmarkList EXCEPT !.items = items]
    /\ UNCHANGED <<fetchVars, storeVars, callVars, button, detailPage, bookmarksPage,
                   pagination, home>>

handleToggleCheck(contentId) ==
    /\ contentId \in list.items /\ ~list.deleteDialogOpen
    /\ list' = [list EXCEPT !.selectedIds =
                  IF contentId \in @ THEN @ \ {contentId} ELSE @ \cup {contentId}]
    /\ UNCHANGED <<fetchVars, storeVars, callVars, button, detailPage, bookmarksPage,
                   pagination, home>>

handleDeleteClick(contentId) ==
    /\ contentId \in list.items /\ ~list.deleteDialogOpen
    /\ list' = [list EXCEPT !.deleteTarget = Some(DeleteTarget("single", {contentId})),
                            !.deleteDialogOpen = TRUE]
    /\ UNCHANGED <<fetchVars, storeVars, callVars, button, detailPage, bookmarksPage,
                   pagination, home>>

handleBatchDeleteClick ==
    /\ list.items # {} /\ ~list.deleteDialogOpen
    /\ list' = IF list.selectedIds = {}
               THEN [list EXCEPT !.toast = "error"]
               ELSE [list EXCEPT !.deleteTarget =
                                     Some(DeleteTarget("multiple", list.selectedIds)),
                                 !.deleteDialogOpen = TRUE]
    /\ UNCHANGED <<fetchVars, storeVars, callVars, button, detailPage, bookmarksPage,
                   pagination, home>>

\* The confirm button, disabled while isDeleting: one removeBookmarkAction is
\* called for the single target, or one for each content id of the batch.
handleConfirmDelete ==
    /\ list.deleteDialogOpen /\ ~list.isDeleting
    /\ list' = IF list.deleteTarget = None THEN list
               ELSE [list EXCEPT !.isDeleting = TRUE,
                                 !.pending = list.deleteTarget[1].contentIds,
                                 !.resolved = {}, !.rejected = {}, !.refreshed = FALSE]
    /\ UNCHANGED <<fetchVars, storeVars, callVars, button, detailPage, bookmarksPage,
                   pagination, home>>

\* One of the awaited removals settles; auth() knew its caller as k.
RemovalSettled(contentId, k) ==
    /\ contentId \in list.pending
    /\ LET r == removeBookmarkAction(bookmarks, users, k, contentId)
       IN  /\ bookmarks' = r.table
           /\ list' = AfterRemoval(list, contentId, r.result)
    /\ UNCHANGED <<fetchVars, users, nextId, callVars, button, detailPage, bookmarksPage,
                   pagination, home>>

NextBookmarkList ==
    \/ MountBookmarkList
    \/ \E contentId \in {"c1", "c2"} : handleToggleCheck(contentId)
    \/ \E contentId \in {"c1", "c2"} : handleDeleteClick(contentId)
    \/ handleBatchDeleteClick
    \/ handleConfirmDelete
    \/ \E contentId \in {"c1", "c2"}, k \in {ListClerk, NoClerk} : RemovalSettled(contentId, k)
\* The visitor bookmarks places and deletes bookmarks from the list.
NextList == ClientStep(Visitor, {ListClerk}, {"c1", "c2"}) \/ NextBookmarkList
SpecList == Init /\ [][NextList]_vars

\* ------------------------------------------------------------------ Home
HomeKeywords == {Text("a"), Gyeongbokgung}
FilterValues == {Undefined, Str(Text("1"))}
\* handleSearch(keyword)
handleSearch(keyword) ==
    /\ home.issued < MaxIssued
    /\ home' = AfterChange(home, [home EXCEPT !.searchKeyword = Some(keyword)])
    /\ UNCHANGED <<fetchVars, storeVars, callVars, button, detailPage, bookmarksPage,
                   pagination, list>>
\* handleSearchChange(value)
handleSearchChange(value) ==
    /\ home.issued < MaxIssued
    /\ home' = IF Len(trim(value)) = 0
               THEN AfterChange(home, [home EXCEPT !.searchKeyword = None])
               ELSE home
    /\ UNCHANGED <<fetchVars, storeVars, callVars, button, detailPage, bookmarksPage,
                   pagination, list>>
\* handleFilterChange(newFilters)
handleFilterChange(areaCode, contentTypeId) ==
    /\ home.issued < MaxIssued
    /\ home' = AfterChange(home, [home EXCEPT !.areaCode = areaCode,
                                              !.contentTypeId = contentTypeId])
    /\ UNCHANGED <<fetchVars, storeVars, callVars, button, detailPage, bookmarksPage,
                   pagination, list>>
\* handlePageChange(page), called by the Pagination shown for two pages or more
handlePageChange(page) ==
    /\ home.issued < MaxIssued
    /\ homeTotalPages(home) > 1 /\ page \in 1..homeTotalPages(home)
    /\ home' = AfterChange(home, [home EXCEPT !.currentPage = page])
    /\ UNCHANGED <<fetchVars, storeVars, callVars, button, detailPage, bookmarksPage,
                   pagination, list>>
\* The request issued as the id-th, still awaited, settles with answer a.
ListSettled(id, a) ==
    /\ \E r \in home.inFlight : r.id = id
    /\ home' = AfterList(home, CHOOSE r \in home.inFlight : r.id = id, a)
    /\ UNCHANGED <<fetchVars, storeVars, callVars, button, detailPage, bookmarksPage,
                   pagination, list>>

NextHome ==
    \/ \E keyword \in HomeKeywords : handleSearch(keyword)
    \/ \E value \in {<<>>, Text("a")} : handleSearchChange(value)
    \/ \E areaCode \in FilterValues, contentTypeId \in FilterValues :
          handleFilterChange(areaCode, contentTypeId)
    \/ \E page \in 1..2 : handlePageChange(page)
    \/ \E id \in 1..(MaxIssued + 1), a \in ListAnswers : ListSettled(id, a)
SpecHome == Init /\ [][NextHome]_vars

\* One visitor, signed in and synced: a page fetches with the default number
\* of attempts, as every caller in the repository does, while the visitor
\* bookmarks and unbookmarks one place.
Next ==
    \/ CallFetchTourAPI(DefaultRetries)
    \/ FetchStep
    \/ ClientStep(Visitor, {"clerk_a"}, {"c1"})
Spec == Init /\ [][Next]_vars

\* ============================================================ properties
Ended == pc \in {"returned", "thrown"}
\* The latest attempt got an HTTP response with this property of its status.
GotStatus(S) == outcome.net = "resolve" /\ outcome.status \in S
RetryStatuses == {s \in ErrorStatuses : s = 429 \/ s >= 500}
\* The call stopped at the latest attempt: the error is thrown, the attempt
\* was the last fetch and no timer ran after it.
StoppedAtOnce ==
    /\ pc = "thrown"
    /\ fetchCount = attempt
    /\ Len(delays) = fetchCount - 1

\* C1: an attempt that receives HTTP 401 or 403 ends the call at once with
\* the authentication error; no fetch and no backoff wait follows it,
\* whatever the attempt number and the attempt cap.
C1_AuthStatusStopsAtOnce ==
    GotStatus({401, 403}) =>
        /\ StoppedAtOnce
        /\ thrown = NewError(Msg401)
        /\ getErrorType(thrown) = "AUTH"
C1_Witness ==
    /\ GotStatus({403}) /\ pc = "thrown"
    /\ fetchCount = 2 /\ retries = 4

\* C2: HTTP 429 and HTTP >= 500 are retried: after such a status on attempt
\* n < retries the call waits and fetches attempt n+1; when every attempt
\* got such a status the call has made exactly `retries` fetches when it
\* throws; no call ever makes more than `retries` fetches.
C2_RetryableStatuses ==
    /\ fetchCount <= retries
    /\ (GotStatus(RetryStatuses) /\ fetchCount < retries) =>
            \/ pc = "wait" /\ attempt = fetchCount
            \/ pc = "fetch" /\ attempt = fetchCount + 1 /\ Len(delays) = fetchCount
    /\ (GotStatus(RetryStatuses) /\ fetchCount = retries) => pc = "thrown"
    /\ ( /\ Ended /\ GotStatus(RetryStatuses)
         /\ caught \subseteq {NewError(Msg429), NewError(Msg5xx)} ) =>
            /\ pc = "thrown" /\ thrown # NoError
            /\ fetchCount = retries
C2_Witness ==
    /\ pc = "thrown" /\ GotStatus({503})
    /\ caught = {NewError(Msg429), NewError(Msg5xx)}
    /\ retries = DefaultRetries /\ fetchCount = DefaultRetries

\* C3 (as claimed): a non-2xx status other than 401, 403, 429 and >= 500
\* ends the call at once with the generic HTTP error, with no further fetch
\* and no backoff wait.
C3_OtherStatusStopsAtOnce ==
    GotStatus({s \in ErrorStatuses : s \notin {401, 403, 429} /\ s < 500}) =>
        /\ StoppedAtOnce
        /\ thrown = NewError(MsgHttp)

\* C4: a 200 response whose result code is one of the three terminal codes
\* ends the call at once with the translated error, whatever the attempt
\* number and the attempt cap.
GotResultCode(C) ==
    /\ outcome.net = "resolve" /\ ResponseOk(outcome)
    /\ outcome.json = "object" /\ outcome.header
    /\ outcome.resultCode \in C
C4_TerminalCodeStopsAtOnce ==
    GotResultCode(TerminalCodes) =>
        /\ StoppedAtOnce
        /\ thrown = IF outcome.resultCode = "NO_MANDATORY_REQUEST_PARAMETERS_ERROR"
                    THEN NewError(MsgMandatory)
                    ELSE NewError(MsgKey)
C4_Witness ==
    /\ GotResultCode({"NO_MANDATORY_REQUEST_PARAMETERS_ERROR"}) /\ pc = "thrown"
    /\ fetchCount = 3 /\ retries = 5

\* C5: the wait before attempt n (n >= 2) is min(1000 * 2^(n-2), 5000) ms:
\* 1000, 2000, 4000, then 5000 before every later attempt.
ClaimedDelay(n) ==
    CASE n = 2 -> 1000 [] n = 3 -> 2000 [] n = 4 -> 4000 [] OTHER -> 5000
C5_BackoffSequence ==
    \A i \in 1..Len(delays) :
        /\ delays[i] = ClaimedDelay(i + 1)
        /\ delays[i] = Min(1000 * 2 ^ ((i + 1) - 2), 5000)
C5_Witness == Len(delays) >= 4 /\ delays[4] = 5000 /\ pc = "fetch"

\* C6: the call ends after at most `retries` fetches, with a returned body
\* or a thrown error and never both; every step of a call brings it nearer
\* its end and a call that has not ended can step; when the call ends
\* because its attempts are used up, the error thrown is formatError of the
\* error of the last attempt.
Rank ==
    IF Ended THEN 0
    ELSE 2 * (retries - attempt) + (IF pc = "fetch" THEN 2 ELSE 1)
UsedUp == pc = "thrown" /\ fetchCount >= 1 /\ ~IsImmediate(lastError.message)
C6_Safe ==
    /\ fetchCount <= retries
    /\ pc = "returned" => thrown = NoError /\ TryAttempt(outcome) = Return
    /\ pc = "thrown" => thrown # NoError
    /\ pc \in {"fetch", "wait"} => Rank > 0 /\ ENABLED FetchStep
    /\ UsedUp =>
        /\ fetchCount = retries
        /\ TryAttempt(outcome).tag = "throw"
        /\ thrown = NewError(formatError(TryAttempt(outcome).error))
C6_Terminates ==
    /\ []C6_Safe
    /\ [][(pc \in {"fetch", "wait"}) => (Rank' < Rank)]_vars
C6_Witness ==
    /\ UsedUp /\ retries = 3
    /\ outcome = BadJson /\ thrown = NewError(UserUnknown)
    /\ NewError(Msg429) \in caught

\* C7 (as claimed): when the attempts are used up on a network failure, an
\* HTTP 429 or an HTTP >= 500, the error thrown is flagged retryable.
C7_ExhaustionIsRetryable ==
    (UsedUp /\ (outcome = NetworkFailure \/ GotStatus(RetryStatuses))) =>
        /\ getErrorInfo(thrown).canRetry
        /\ isRetryableError(thrown)

\* ------------------------------------------------------------- bookmarks
IsAdd(c) == call[c].op = "add"
\* The call of c has had its answer from the store.
Answered(c) == call[c].pc = "done" /\ call[c].userId # ""
Succeeded(c) == call[c].result.tag = "return"
GotDuplicate(c) == call[c].result = Thrown(NewError(MsgDuplicate))
RowsOfPair(B, uid, cid) == {b \in B : b.user_id = uid /\ b.content_id = cid}
\* The rows of the pair among what getBookmarks returns for the user.
ListedOfPair(uid, cid) ==
    LET q == getBookmarks(bookmarks, uid)
    IN  {i \in 1..Len(q) : q[i].content_id = cid}

\* C8: the errors thrown for HTTP 401/403, for an unregistered or invalid
\* service key, for a missing mandatory parameter and for a duplicate bookmark
\* have canRetry = false in getErrorInfo, and each is thrown by the attempt
\* that met it: fetchTourAPI neither waits nor fetches again after it, and
\* addBookmark throws it on the answer to its one insert.
C8_FetchCase == GotStatus({401, 403}) \/ GotResultCode(TerminalCodes)
C8_State ==
    /\ C8_FetchCase =>
        /\ StoppedAtOnce
        /\ thrown = lastError
        /\ thrown.message \in {Msg401, MsgKey, MsgMandatory}
        /\ ~getErrorInfo(thrown).canRetry
    /\ \A c \in Clients : GotDuplicate(c) =>
        /\ IsAdd(c) /\ Answered(c)
        /\ ~getErrorInfo(call[c].result.error).canRetry
C8_Step ==
    \A c \in Clients :
        (call'[c] # call[c] /\ call'[c].result = Thrown(NewError(MsgDuplicate))) =>
            /\ call[c].pc = "write" /\ call[c].result = NoResult
            /\ bookmarks' = bookmarks /\ nextId' = nextId
C8_NeverRetryable == []C8_State /\ [][C8_Step]_vars
C8_Witness ==
    /\ GotStatus({401}) /\ pc = "thrown" /\ fetchCount = 2
    /\ GotDuplicate(Visitor)

\* C9: addBookmark for a pair that has a row throws the duplicate error and
\* leaves the table as it was; getBookmarks of the user then lists exactly one
\* row of the pair.
C9_Step ==
    \A c \in Clients :
        (/\ call[c].pc = "write" /\ IsAdd(c) /\ call'[c].pc = "done"
         /\ RowsOfPair(bookmarks, call[c].userId, call[c].contentId) # {}) =>
            /\ call'[c].result = Thrown(NewError(MsgDuplicate))
            /\ bookmarks' = bookmarks
            /\ Len(getBookmarks(bookmarks', call[c].userId))
                 = Len(getBookmarks(bookmarks, call[c].userId))
            /\ Cardinality({i \in 1..Len(getBookmarks(bookmarks', call[c].userId)) :
                    getBookmarks(bookmarks', call[c].userId)[i].content_id
                        = call[c].contentId}) = 1
C9_DuplicateLeavesStore == [][C9_Step]_vars
C9_Witness ==
    \E c \in Clients :
        /\ GotDuplicate(c) /\ Answered(c)
        /\ Cardinality(ListedOfPair(call[c].userId, call[c].contentId)) = 1
        /\ Cardinality(bookmarks) = 2

\* At most one row per (user_id, content_id).
OnePerPair ==
    \A a, b \in bookmarks :
        (a.user_id = b.user_id /\ a.content_id = b.content_id) => a = b
\* The last calls of c and d were inserts of one pair, both answered by the
\* store, and each was in flight while the other was.
ConcurrentInserts(c, d) ==
    /\ c # d /\ IsAdd(c) /\ IsAdd(d) /\ Answered(c) /\ Answered(d)
    /\ call[c].userId = call[d].userId /\ call[c].contentId = call[d].contentId
    /\ d \in overlap[c] /\ c \in overlap[d]

\* C10 (as claimed): at most one row per pair in every state, and of two
\* concurrent inserts of one pair exactly one succeeds and the other gets the
\* duplicate error.
C10_ExactlyOneInsertWins ==
    /\ OnePerPair
    /\ \A c, d \in Clients : ConcurrentInserts(c, d) =>
        \/ Succeeded(c) /\ GotDuplicate(d)
        \/ Succeeded(d) /\ GotDuplicate(c)

\* C10: at most one row per pair in every state; of two concurrent inserts of
\* one pair, with no row of the pair deleted since either was answered, at
\* most one succeeds, each of the two either succeeds or gets the duplicate
\* error, and the pair has its row.
C10_UniquePairAtMostOneWins ==
    /\ OnePerPair
    /\ \A c, d \in Clients :
        (ConcurrentInserts(c, d) /\ ~removedSince[c] /\ ~removedSince[d]) =>
            /\ ~(Succeeded(c) /\ Succeeded(d))
            /\ Succeeded(c) \/ GotDuplicate(c)
            /\ Succeeded(d) \/ GotDuplicate(d)
            /\ RowsOfPair(bookmarks, call[c].userId, call[c].contentId) # {}
C10_Witness ==
    \E c, d \in Clients :
        /\ ConcurrentInserts(c, d) /\ ~removedSince[c] /\ ~removedSince[d]
        /\ Succeeded(c) /\ GotDuplicate(d)
        /\ \E e \in Clients \ {c, d} : call[e].op = "remove" /\ Answered(e)

\* C11: removeBookmark of a pair without a row returns {success: true},
\* throws nothing and leaves the table as it was; removing the same pair again
\* right after a removal gives the table the first removal gave.
C11_Step ==
    \A c \in Clients :
        (call[c].pc = "write" /\ call[c].op = "remove" /\ call'[c].pc = "done") =>
            LET uid == call[c].userId
                cid == call[c].contentId
            IN  /\ call'[c].result = Returned(NoRow)
                /\ RowsOfPair(bookmarks, uid, cid) = {} => bookmarks' = bookmarks
                /\ RowsOfPair(bookmarks', uid, cid) = {}
                /\ DeleteBookmark(bookmarks', uid, cid) = bookmarks'
                /\ removeBookmark(bookmarks', uid, cid) = call'[c].result
C11_RemoveIsIdempotent == [][C11_Step]_vars
C11_Witness ==
    \E c \in Clients :
        /\ call[c].op = "remove" /\ Answered(c) /\ Succeeded(c)
        /\ nextId = 1 /\ Cardinality(bookmarks) = 1
        /\ RowsOfPair(bookmarks, call[c].userId, call[c].contentId) = {}

\* The identity is signed in with Clerk and has no row in users.
Unsynced(k) == k # NoClerk /\ \A u \in users : u.clerk_id # k
GotNoUser(c) == call[c].result = Thrown(NewError(MsgNoUser))
GotLogin(c) == call[c].result = Thrown(NewError(MsgLogin))

\* C12: for a signed-in identity without a users row getSupabaseUserId
\* returns null, and getBookmarksAction, addBookmarkAction and
\* removeBookmarkAction each throw the user-not-found error, which is not the
\* login-required error; no step of such a call writes to users or bookmarks.
C12_State ==
    /\ users = UsersTable
    /\ NewError(MsgNoUser) # NewError(MsgLogin)
    /\ \A c \in Clients :
        /\ Unsynced(call[c].clerk) =>
            /\ getSupabaseUserId(users, call[c].clerk) = "null"
            /\ call[c].pc \in {"lookup", "done"}
            /\ call[c].userId = ""
            /\ call[c].pc = "done" => GotNoUser(c) /\ ~GotLogin(c)
        /\ GotLogin(c) => call[c].clerk = NoClerk
C12_Step ==
    \A c \in Clients :
        (call'[c] # call[c] /\ Unsynced(call'[c].clerk)) =>
            /\ users' = users /\ bookmarks' = bookmarks
            /\ InFlight(c) => (call[c].pc = "lookup" /\ GotNoUser(c)')
C13_State ==
    /\ button.pending = "add" =>
        (button.calls = 1 /\ button.isLoading /\ ~button.isBookmarked
         /\ call[Visitor].op = "add")
    /\ button.toast = "info" =>
        /\ GotDuplicate(Visitor) /\ button.pending = "none"
        /\ button.isBookmarked /\ ~button.isLoading /\ button.calls = 1
C13_Step ==
    (button.pending = "add" /\ button'.pending # button.pending /\ GotDuplicate(Visitor)) =>
        /\ button'.isBookmarked /\ ~button'.isLoading
        /\ button'.pending = "none" /\ button'.calls = 1
        /\ call' = call /\ bookmarks' = bookmarks
C13_DuplicateCountsAsBookmarked == []C13_State /\ [][C13_Step]_vars
C13_Witness ==
    /\ button.toast = "info" /\ button.isBookmarked /\ ~button.isLoading
    /\ GotDuplicate(Visitor) /\ button.calls = 1
    /\ RowsOfPair(bookmarks, call[Visitor].userId, ButtonContentId) # {}

\* The list q holds exactly the rows of user uid in table B, each once, from
\* the latest created_at to the earliest.
IsListingOf(q, B, uid) ==
    /\ {q[i] : i \in 1..Len(q)} = {b \in B : b.user_id = uid}
    /\ Len(q) = Cardinality({b \in B : b.user_id = uid})
    /\ \A i, j \in 1..Len(q) : i < j => q[i].created_at >= q[j].created_at
UserIds == {u.id : u \in UsersTable}

\* C14: in every state of the store and for every user, getBookmarks gives
\* exactly the rows of that user ordered by created_at descending, the empty
\* list when the user has none; getBookmarksAction returns that list and does
\* not throw.
C14_State ==
    \A uid \in UserIds \cup {"u0"} :
        /\ IsListingOf(getBookmarks(bookmarks, uid), bookmarks, uid)
        /\ (\A b \in bookmarks : b.user_id # uid) => getBookmarks(bookmarks, uid) = <<>>
C14_Step ==
    \A c \in Clients :
        (call[c].pc = "write" /\ call[c].op = "list" /\ call'[c].pc = "done") =>
            /\ Succeeded(c)'
            /\ IsListingOf(call'[c].result.list, bookmarks, call[c].userId)
C14_ListsOwnRowsNewestFirst == []C14_State /\ [][C14_Step]_vars
C14_Witness ==
    \E c \in Clients :
        /\ call[c].op = "list" /\ Answered(c) /\ Succeeded(c)
        /\ Len(call[c].result.list) = 2
        /\ call[c].result.list[1].created_at > call[c].result.list[2].created_at
        /\ call[c].result.list = getBookmarks(bookmarks, call[c].userId)

\* The step ends a call of client c to the operation op.
Ends(c, op) == call'[c] # call[c] /\ call'[c].pc = "done" /\ call'[c].op = op

\* C15: no step of the gateway or of the server actions changes the id,
\* user_id, content_id or created_at of a row that exists; the bookmarks table
\* changes only by addBookmark creating one row or removeBookmark deleting
\* rows; getSupabaseUserId, getBookmarks and checkBookmark change neither
\* table, and no operation changes users.
C15_Step ==
    /\ users' = users
    /\ \A b \in bookmarks : \A n \in bookmarks' : n.id = b.id => n = b
    /\ bookmarks' # bookmarks =>
        \/ \E c \in Clients : Ends(c, "add") /\ bookmarks \subseteq bookmarks'
                /\ bookmarks' \ bookmarks = {call'[c].result.data}
                /\ \A b \in bookmarks : b.id < call'[c].result.data.id
        \/ \E c \in Clients : Ends(c, "remove") /\ bookmarks' \subseteq bookmarks
    /\ \A c \in Clients :
        (call'[c] # call[c] /\ (call[c].pc = "lookup" \/ call'[c].op \in {"list", "check"}))
            => bookmarks' = bookmarks
C15_RowsAreImmutable == [][C15_Step]_vars
C15_Witness ==
    \E c, d \in Clients :
        /\ call[c].op = "check" /\ call[c].result.flag
        /\ call[d].op = "list" /\ Succeeded(d) /\ Len(call[d].result.list) = 1
        /\ nextId = 2 /\ Cardinality(bookmarks) = 1
        /\ \E b \in bookmarks : b.id = 1

\* The answer carries the item field as one object.
IsObjectForm(r) == r.tag = "return" /\ r.items.form = "object"
\* The answer carries an array with an item.
IsArrayWithItem(r) ==
    r.tag = "return" /\ r.items.form = "array" /\ Len(r.items.elems) >= 1

\* C16 (as claimed): with the item field of detailCommon2 a single object, the
\* detail page goes on with that place as its detail and the bookmarks page
\* lists it, as both do for the array holding that one object.
C16_SingleObjectAsOneElementArray ==
    /\ (detailPage.pc # "common" /\ IsObjectForm(detailPage.common)) =>
        /\ detailPage.detail = First(ArrayOf(detailPage.common.items.elems))
        /\ detailPage.outcome \in {"none", "rendered"}
    /\ \A i \in 1..Len(bookmarksPage.results) :
        (bookmarksPage.results[i].settled /\ IsObjectForm(bookmarksPage.results[i].answer)) =>
            /\ bookmarksPage.results[i].tour
                 = Some(TourItem(bookmarksPage.results[i].answer.items.elems[1]))
            /\ bookmarksPage.pc = "done" =>
                 \E j \in 1..Len(bookmarksPage.tours) :
                    bookmarksPage.tours[j]
                      = TourItem(bookmarksPage.results[i].answer.items.elems[1])

\* C17: on the detail page, once detailCommon2 has given the detail, a failed
\* detailIntro2 leaves intro null and a failed detailImage2 leaves images
\* null, and the page renders with the detail; on the bookmarks page every
\* bookmark whose detailCommon2 gave an array with an item is listed, in the
\* order of the bookmarks, whatever the other branches did.
C17_State ==
    /\ (detailPage.pc \in {"image", "done"} /\ detailPage.detail # None) =>
        /\ detailPage.detail = First(detailPage.common.items)
        /\ detailPage.introAnswer.tag = "throw" => detailPage.intro = None
        /\ detailPage.imageAnswer.tag = "throw" => detailPage.images = None
        /\ detailPage.outcome = IF detailPage.pc = "done" THEN "rendered" ELSE "none"
        /\ detailPage.error = NoError
    /\ (bookmarksPage.pc = "done" /\ bookmarksPage.results # <<>>) =>
        /\ bookmarksPage.outcome = "rendered" /\ bookmarksPage.error = NoError
        /\ LET good == SelectSeq(bookmarksPage.results,
                                 LAMBDA r : IsArrayWithItem(r.answer))
           IN  /\ Len(bookmarksPage.tours) = Len(good)
               /\ \A j \in 1..Len(good) :
                    bookmarksPage.tours[j] = TourItem(good[j].answer.items.elems[1])
C17_Step ==
    /\ detailPage.pc = "intro" => detailPage'.pc \in {"intro", "image"}
    /\ detailPage.pc = "image" => detailPage'.pc = "image" \/ detailPage'.outcome = "rendered"
    /\ (detailPage.pc \in {"intro", "image"} /\ detailPage'.pc # "image")
            => detailPage'.detail = detailPage.detail
C17_PartialFailureTolerated == []C17_State /\ [][C17_Step]_vars
C17_Witness ==
    /\ detailPage.pc = "done" /\ detailPage.outcome = "rendered"
    /\ detailPage.detail # None
    /\ detailPage.introAnswer.tag = "throw" /\ detailPage.imageAnswer.tag = "throw"
    /\ bookmarksPage.pc = "done" /\ Len(bookmarksPage.results) = 2
    /\ bookmarksPage.results[1].answer.tag = "throw"
    /\ Len(bookmarksPage.tours) = 1

\* C18: the detail page ends in the not-found state when the content id is
\* empty or blank and when detailCommon2 returns without an item (the field
\* missing, or an empty array); when detailCommon2 throws it ends in the
\* error state.
C18_NotFoundIsNotAnError ==
    detailPage.pc = "done" =>
        /\ IsBlank(detailPage.contentId) =>
            (detailPage.outcome = "notFound" /\ detailPage.error = NotFoundSignal)
        /\ (/\ ~IsBlank(detailPage.contentId)
            /\ detailPage.common.tag = "return"
            /\ detailPage.common.items \in {Absent, ArrayOf(<<>>)}) =>
            (detailPage.outcome = "notFound" /\ detailPage.error = NotFoundSignal)
        /\ (~IsBlank(detailPage.contentId) /\ detailPage.common.tag = "throw") =>
            (detailPage.outcome = "error" /\ detailPage.error = detailPage.common.error)
C18_Witness ==
    /\ detailPage.pc = "done" /\ detailPage.outcome = "notFound"
    /\ detailPage.contentId = "c1" /\ detailPage.common = ApiReturns(ArrayOf(<<>>))

\* result codes that are neither "0000" nor terminal
OtherCodes == {o.resultCode : o \in OtherEnvelopes}

\* C19 (as claimed): when the call ends on an envelope whose result code is
\* neither "0000" nor terminal, the error thrown to the caller is the generic
\* data-retrieval error ("데이터를 불러오는 중 오류가 발생했습니다 ..."),
\* whatever the result message says.
C19_OtherCodeGivesGenericError ==
    (pc = "thrown" /\ GotResultCode(OtherCodes)) => thrown.message \in {MsgHttp, UserApi}

\* ---------------------------------------------------------------- C20
FixedKeys == {"MobileOS", "MobileApp", "_type", "serviceKey"}
KeysOf(entries) == {entries[i][1] : i \in 1..Len(entries)}
DefinedKeys(params) == {params[i][1] : i \in {j \in 1..Len(params) : params[j][2] # Undefined}}
UndefinedKeys(params) == {params[i][1] : i \in {j \in 1..Len(params) : params[j][2] = Undefined}}
Built == request # NoRequest
FixedEntries == SearchParams(Append(DEFAULT_PARAMS, <<"serviceKey", ApiKey>>))
ExactKeys ==
    /\ KeysOf(request.queryParams) = FixedKeys \cup DefinedKeys(request.params)
    /\ Len(request.queryParams) = Cardinality(KeysOf(request.queryParams))
NoUndefinedText(keys) ==
    \A i \in 1..Len(request.queryParams) :
        request.queryParams[i][1] \in keys => request.queryParams[i][2] # Text("undefined")

\* C20 as stated: the query has exactly the four fixed keys plus the caller
\* keys whose value is not undefined, every key whose value is undefined is
\* absent from the query and never carries the text "undefined".
C20_UndefinedKeysAbsent ==
    Built =>
        /\ ExactKeys
        /\ UndefinedKeys(request.params) \cap KeysOf(request.queryParams) = {}
        /\ NoUndefinedText(UndefinedKeys(request.params))

\* C20: the query of fetchTourAPI has, once each, exactly the keys MobileOS,
\* MobileApp, _type and serviceKey plus the caller keys whose value is not
\* undefined; a caller key whose value is undefined is absent from the query
\* unless it is one of the four fixed keys, which then keeps its fixed value;
\* no key whose value is undefined carries the text "undefined".
C20_UndefinedKeysFiltered ==
    Built =>
        /\ ExactKeys
        /\ (UndefinedKeys(request.params) \ FixedKeys) \cap KeysOf(request.queryParams) = {}
        /\ \A i \in 1..Len(request.queryParams) :
              LET k == request.queryParams[i][1] IN
              (k \in UndefinedKeys(request.params) /\ k \in FixedKeys)
                  => \E j \in 1..Len(FixedEntries) :
                        request.queryParams[i] = FixedEntries[j]
        /\ NoUndefinedText(UndefinedKeys(request.params))
C20_Witness ==
    /\ Built
    /\ "areaCode" \in UndefinedKeys(request.params)
    /\ "keyword" \in DefinedKeys(request.params)
    /\ "_type" \in UndefinedKeys(request.params)
    /\ "keyword" \in KeysOf(request.queryParams)

\* ---------------------------------------------------------------- C21
\* the search of the scenario: the keyword alone, or with white space around
IsPalaceSearch ==
    /\ request.endpoint = "/searchKeyword2"
    /\ request.params[1] = <<"keyword", Str(Gyeongbokgung)>>
    /\ "areaCode" \notin KeysOf(request.params)
    /\ "contentTypeId" \notin KeysOf(request.params)
NoFilterKeys ==
    /\ ~Includes(request.url, <<"areaCode", "=">>)
    /\ ~Includes(request.url, <<"contentTypeId", "=">>)

\* C21 as stated: the query string of that search contains
\* keyword=%EA%B2%BD%EB%B3%B5%EA%B1%B0 and neither filter key.
C21_KeywordEncodedAsStated ==
    IsPalaceSearch =>
        /\ Includes(request.url, <<"keyword", "=", "%EA", "%B2", "%BD", "%EB", "%B3", "%B5",
                                   "%EA", "%B1", "%B0">>)
        /\ NoFilterKeys

\* C21: for searchKeyword2 with the keyword U+ACBD U+BCF5 U+AD81 and no area
\* code and content type, the query string contains the keyword
\* percent-encoded from its UTF-8 bytes, keyword=%EA%B2%BD%EB%B3%B5%EA%B6%81
\* followed by the next pair, and no areaCode and no contentTypeId key.
C21_KeywordPercentEncoded ==
    IsPalaceSearch =>
        /\ Includes(request.url, <<"keyword", "=", "%EA", "%B2", "%BD", "%EB", "%B3", "%B5",
                                   "%EA", "%B6", "%81", "&">>)
        /\ NoFilterKeys
C21_Witness ==
    /\ IsPalaceSearch
    /\ fetchCount >= 1
    /\ Includes(request.url, <<"%EA", "%B6", "%81">>)

\* ---------------------------------------------------------------- C22
IsBlankText(t) == t = <<>> \/ trim(t) = <<>>
\* the call was refused at the presence check, with no query built
RefusedWith(message) ==
    /\ pc' = "thrown"
    /\ thrown' = NewError(message)
    /\ request' = NoRequest
    /\ fetchCount' = 0
C22_State == (pc = "thrown" /\ request = NoRequest) => fetchCount = 0 /\ outcome = NoResponse
C22_Step ==
    /\ \A options \in SearchOptions :
          (IsBlankText(options.keyword) /\ CallSearchKeyword2(options))
              => RefusedWith(MsgNeedKeyword)
    /\ \A contentId \in ContentIds :
          /\ (IsBlank(contentId) /\ CallDetailCommon2(contentId))
                => RefusedWith(MsgPlaceNotFound)
          /\ (IsBlank(contentId) /\ CallDetailImage2(contentId))
                => RefusedWith(MsgPlaceNotFound)
          /\ \A contentTypeId \in ContentTypeIds :
                ((IsBlank(contentId) \/ IsBlank(contentTypeId))
                    /\ CallDetailIntro2(contentId, contentTypeId))
                    => RefusedWith(MsgPlaceNotFound)
    /\ (pc = "thrown" /\ request = NoRequest) => UNCHANGED vars
\* C22: searchKeyword2 with an empty or blank keyword, detailCommon2 and
\* detailImage2 with an empty or blank content id, detailIntro2 with an empty
\* or blank content id or content type id throw at their presence check:
\* no query is built and no fetch attempt is made, then or later.
C22_PresenceChecksBeforeFetch == []C22_State /\ [][C22_Step]_vars
C22_Witness ==
    /\ pc = "thrown"
    /\ request = NoRequest
    /\ thrown = NewError(MsgNeedKeyword)
    /\ fetchCount = 0

\* ---------------------------------------------------------------- C25
\* the entries of the result that are page numbers
PageNumbersShown == SelectSeq(pagination.pageNumbers, LAMBDA n : n # -1)
\* C25: with two pages or more and the current page among them, at most five
\* page numbers are shown, strictly ascending, the first being 1 and the
\* last totalPages.
C25_AtMostFivePageNumbers ==
    (pagination.totalPages >= 2 /\ pagination.currentPage \in 1..pagination.totalPages) =>
        /\ Len(PageNumbersShown) <= 5
        /\ \A i \in 1..(Len(PageNumbersShown) - 1) : PageNumbersShown[i] < PageNumbersShown[i + 1]
        /\ PageNumbersShown[1] = 1
        /\ PageNumbersShown[Len(PageNumbersShown)] = pagination.totalPages

\* ---------------------------------------------------------------- C24
IsBatch(l) == l.deleteTarget # None /\ l.deleteTarget[1].type = "multiple"
HasBookmark(contentId) ==
    \E b \in bookmarks : b.user_id = ListUser /\ b.content_id = contentId
\* while a removal is awaited the handler has not gone on
C24_State ==
    list.pending # {} =>
        /\ list.isDeleting /\ list.deleteDialogOpen /\ ~list.refreshed
        /\ list.deleteTarget # None
        /\ list.pending \cup list.resolved \cup list.rejected = list.deleteTarget[1].contentIds
C24_Step ==
    /\ \* the confirmation of a batch calls one removal for each selected id
       (~list.isDeleting /\ list'.isDeleting /\ IsBatch(list))
           => list'.pending = list.selectedIds /\ list.selectedIds # {}
    /\ \* a removal that resolves takes effect, whatever the others did
       \A contentId \in list.pending :
           (contentId \in list'.resolved) => ~HasBookmark(contentId)'
    /\ \* a removal that rejects leaves the batch running
       (IsBatch(list) /\ list.isDeleting /\ list'.pending # {}) => list'.isDeleting
    /\ \* the batch ends when its last removal has settled, failed or not
       (IsBatch(list) /\ list.isDeleting /\ list'.pending = {} /\ list' # list)
           => /\ list'.selectedIds = {}
              /\ ~list'.deleteDialogOpen
              /\ list'.deleteTarget = None
              /\ ~list'.isDeleting
              /\ list'.refreshed
              /\ list'.resolved \cup list'.rejected = list.deleteTarget[1].contentIds
\* C24: the confirmation of a batch delete calls removeBookmarkAction once
\* for every selected content id and awaits them all; a removal that fails
\* does not end the batch, the removals that succeed take effect, and when
\* the last one has settled the selection is empty, the dialog closed, the
\* delete target null, isDeleting false and a refresh requested.
C24_BatchDeleteToleratesFailures == []C24_State /\ [][C24_Step]_vars
C24_Witness ==
    /\ list.rejected = {"c1"} /\ list.resolved = {"c2"}
    /\ list.pending = {} /\ ~list.isDeleting /\ list.refreshed
    /\ list.selectedIds = {} /\ ~list.deleteDialogOpen /\ list.deleteTarget = None
    /\ HasBookmark("c1") /\ ~HasBookmark("c2")

\* ---------------------------------------------------------------- C23
\* the places shown are, in order, the fields of these items
ShowsPlaces(tours, elems) ==
    /\ Len(tours) = Len(elems)
    /\ \A i \in 1..Len(elems) : \A f \in TourItemFields : tours[i][f] = elems[i][f]
C23_Step ==
    \A id \in 1..(MaxIssued + 1), a \in ListAnswers :
        (ListSettled(id, a) /\ a.tag = "return") =>
            /\ a.items.form = "array" => ShowsPlaces(home'.tours, a.items.elems)
            /\ a.items.form = "object" =>
                  Len(home'.tours) = 1 /\ ShowsPlaces(home'.tours, a.items.elems)
            /\ (a.items.form = "absent" \/ a.items.elems = <<>>) => home'.tours = <<>>
            /\ home'.error = home.error
            /\ ~home'.loading
\* C23: when a list request of the home page returns, an items.item that is
\* an array of k places gives a list of k places, one that is a single
\* object gives a list of exactly one place with that object's fields, one
\* that is absent or empty gives the empty list; the completion sets no
\* error.
C23_ListNormalizedAtBoundary == [][C23_Step]_vars
C23_Witness ==
    /\ home.latestAnswer = ListReturns(ObjectOf(ListItem("c1", "A")), Some(1))
    /\ home.inFlight = {}
    /\ Len(home.tours) = 1 /\ home.tours[1].contentid = "c1" /\ home.tours[1].title = "A"
    /\ home.error = None

\* ---------------------------------------------------------------- C26
\* the request carries the keyword and the filters of the page state h
CarriesStateOf(r, h) ==
    /\ r.keyword = (IF hasSearch(h) THEN trim(h.searchKeyword[1]) ELSE <<>>)
    /\ r.api = (IF hasSearch(h) THEN "searchKeyword2" ELSE "areaBasedList2")
    /\ r.areaCode = h.areaCode
    /\ r.contentTypeId = h.contentTypeId
C26_Step ==
    ResetDeps(home') # ResetDeps(home) =>
        /\ home'.currentPage = 1
        /\ home'.issued > home.issued =>
              /\ home'.latest.id = home'.issued
              /\ home'.latest.pageNo = 1
              /\ CarriesStateOf(home'.latest, home')
              /\ home'.latest \in home'.inFlight
\* C26: a change of the search keyword, the area filter or the content type
\* filter leaves the current page at 1, and the last list request issued in
\* consequence carries pageNo = 1 with the new keyword and filters.
C26_PageResetOnChange == [][C26_Step]_vars
\* the change came on page 2: a request with the old page was issued first
C26_Witness ==
    /\ home.currentPage = 1
    /\ home.latest.pageNo = 1
    /\ home.latest \in home.inFlight
    /\ \E r \in home.inFlight :
          /\ r.id = home.latest.id - 1
          /\ r.pageNo = 2
          /\ CarriesStateOf(r, home)

\* ---------------------------------------------------------------- C27
\* what the completion of a request with answer a shows
ShownTours(a) ==
    IF a.tag = "return" /\ Truthy(a.items) THEN transformItems(a.items) ELSE <<>>
ShownError(a) == IF a.tag = "throw" THEN Some(a.error.message) ELSE None
\* C27: while a list request of the home page is in flight loading is true,
\* and once all have settled the tours, the total count and the error shown
\* are those of the request issued last.
C27_LatestRequestWins ==
    /\ home.inFlight # {} => home.loading
    /\ (home.inFlight = {} /\ home.latestAnswer # NoListAnswer
            /\ (hasSearch(home) \/ hasFilters(home))) =>
          /\ home.tours = ShownTours(home.latestAnswer)
          /\ home.error = ShownError(home.latestAnswer)
          /\ home.latestAnswer.totalCount # None
                => home.totalCount = home.latestAnswer.totalCount

\* ---------------------------------------------------------------- C28
\* the step calls addBookmarkAction or removeBookmarkAction for the button
CallsToggleAction ==
    /\ call'[Visitor] # call[Visitor]
    /\ call'[Visitor].op \in {"add", "remove"}
    /\ call[Visitor].pc \in {"idle", "done"}
C28_State ==
    /\ button.isLoading <=> button.pending \in {"add", "remove"}
    /\ button.pending \in {"add", "remove"} => call[Visitor].op = button.pending
    /\ button.lastClick = "ignored" => button.calls <= 1
C28_Step ==
    /\ CallsToggleAction =>
          /\ ~button.isLoading /\ ~button.isChecking /\ button.isLoaded
          /\ button.userId # NoClerk
          /\ button.pending = "none"
          /\ button'.isLoading /\ button'.calls = 1
    /\ (button' # button /\ (button.isLoading \/ button.isChecking \/ button.userId = NoClerk)
            /\ button'.lastClick # button.lastClick)
          => call' = call /\ bookmarks' = bookmarks /\ button'.pending = button.pending
    /\ (button.isLoading /\ button'.pending # button.pending) => ~button'.isLoading
\* C28: the button awaits at most one add or remove action: addBookmarkAction
\* or removeBookmarkAction is called only by a click made while the user is
\* signed in, the status check is over and no toggle is running; a click made
\* otherwise calls no action; isLoading is false when the toggle ends, with
\* a success or with a failure.
C28_OneToggleInFlight == []C28_State /\ [][C28_Step]_vars
C28_Witness ==
    /\ button.isLoading /\ button.pending = "add"
    /\ button.lastClick = "ignored"
    /\ InFlight(Visitor)

\* ---------------------------------------------------------------- C29
\* the call of client c ended at once with this message, the store untouched
EndsAtOnceWith(c, message) ==
    /\ call'[c].pc = "done"
    /\ call'[c].result = Thrown(NewError(message))
    /\ users' = users /\ bookmarks' = bookmarks /\ nextId' = nextId
C29_StepAsStated ==
    \A c \in {"s1", "s2"} :
        /\ StartGetBookmarksAction(c, NoClerk) => EndsAtOnceWith(c, MsgLogin)
        /\ \A contentId \in GuestContentIds :
              /\ StartAddBookmarkAction(c, contentId, NoClerk) => EndsAtOnceWith(c, MsgLogin)
              /\ StartRemoveBookmarkAction(c, contentId, NoClerk)
                    => EndsAtOnceWith(c, MsgLogin)
\* C29 as stated: signed out, each of the three actions throws the
\* login-required error without touching the store, whatever its parameter.
C29_GuestGetsLoginError == [][C29_StepAsStated]_vars

C29_Step ==
    \A c \in {"s1", "s2"} :
        /\ StartGetBookmarksAction(c, NoClerk) => EndsAtOnceWith(c, MsgLogin)
        /\ \A contentId \in GuestContentIds, k \in GuestSessions :
              (StartAddBookmarkAction(c, contentId, k)
                    \/ StartRemoveBookmarkAction(c, contentId, k))
                 => IF IsBlank(contentId) THEN EndsAtOnceWith(c, MsgNeedId)
                    ELSE k = NoClerk => EndsAtOnceWith(c, MsgLogin)
\* a call that ended with one of the two errors never reached the store
C29_State ==
    \A c \in {"s1", "s2"} :
        (call[c].pc = "done" /\ call[c].result.tag = "throw"
            /\ call[c].result.error.message \in {MsgLogin, MsgNeedId})
          => call[c].userId = "" /\ call[c].clerk = NoClerk
\* C29: signed out, getBookmarksAction throws the login-required error, and
\* addBookmarkAction and removeBookmarkAction throw it for a content id that
\* is not blank; a blank content id is rejected first, signed in or not, with
\* the id-required error; in each case the action ends before any read or
\* write of the users and bookmarks tables.
C29_GuestRejectedBeforeStore == []C29_State /\ [][C29_Step]_vars
C29_Witness ==
    /\ call["s1"].pc = "done" /\ call["s1"].op = "add" /\ call["s1"].contentId = "c1"
    /\ call["s1"].result = Thrown(NewError(MsgLogin))
    /\ call["s2"].pc = "done" /\ call["s2"].op = "remove" /\ call["s2"].contentId = " "
    /\ call["s2"].result = Thrown(NewError(MsgNeedId))
    /\ bookmarks # {}

\* ------------------------------------------------------- waits of one call
\* The total of the waits performed by the call, in milliseconds.
TotalWait ==
    LET RECURSIVE sum(_)
        sum(s) == IF s = <<>> THEN 0 ELSE Head(s) + sum(Tail(s))
    IN sum(delays)
\* The latest attempt failed with an error the catch block retries.
FailedRetryably ==
    /\ TryAttempt(outcome).tag = "throw"
    /\ ~IsImmediate(TryAttempt(outcome).error.message)
\* Every attempt of the call so far failed with an error that is retried.
AllFailedRetryably ==
    /\ fetchCount >= 1
    /\ \A e \in caught : ~IsImmediate(e.message)
    /\ pc # "returned"

\* C30: fetchTourAPI waits only between two fetch attempts: no wait comes
\* before the first attempt, after the final failed attempt, after a success
\* or after an error that is not retried; a call that made k >= 1 attempts
\* performed exactly k - 1 waits, and with retries = 3 and every attempt
\* failing retryably the waits are 1000 and 2000 ms, 3000 ms in all.
C30_State ==
    /\ pc = "fetch" => Len(delays) = fetchCount
    /\ pc = "wait" =>
        /\ Len(delays) = fetchCount - 1
        /\ FailedRetryably
        /\ fetchCount < retries
    /\ (Ended /\ fetchCount >= 1) => Len(delays) = fetchCount - 1
    /\ fetchCount = 0 => delays = <<>>
    /\ (pc = "thrown" /\ AllFailedRetryably /\ retries = DefaultRetries) =>
        /\ fetchCount = 3
        /\ delays = <<1000, 2000>>
        /\ TotalWait = 3000
C30_Step ==
    /\ delays' # delays =>
        /\ pc = "wait" /\ pc' = "fetch"
        /\ fetchCount >= 1
        /\ Len(delays') = Len(delays) + 1
    /\ ~(pc = "fetch" /\ pc' = "fetch")
    /\ Ended => delays' = delays
C30_WaitsOnlyBetweenAttempts == []C30_State /\ [][C30_Step]_vars
C30_Witness ==
    /\ pc = "thrown" /\ retries = DefaultRetries /\ fetchCount = 3
    /\ AllFailedRetryably
    /\ delays = <<1000, 2000>>
    /\ outcome = NetworkFailure
====
